---------------------------- MODULE Spec2Model ----------------------------
(***************************************************************************)
(* A model of the memory and action engine of voice_assistant/app.py:      *)
(* the global `memory` (long-term collections and the contextual view),    *)
(* the global `pending_action`, handle_action, clear_reminders,            *)
(* clear_all_memory, clean_memory, update_contextual_memory, save_memory   *)
(* and the check_reminders loop.                                           *)
(*                                                                         *)
(* Representation.                                                         *)
(*  - A Python str is a sequence of one-character strings, so that         *)
(*    lower(), strip(), split() and `in` are computed, not assumed.        *)
(*  - A Python dict is a record; `k in d` is `k \in DOMAIN d`; a key the   *)
(*    code never sets is absent from the record.                           *)
(*  - A "%Y-%m-%d %H:%M:%S" string is the integer second it denotes (the   *)
(*    zero-padded format is order-isomorphic to the instant).  The clock   *)
(*    datetime.now() also has a sub-second part, kept as usec \in {0,1}    *)
(*    (zero / non-zero): strftime drops it, strptime yields usec = 0.      *)
(*  - Every reminder dict carries an `id`, its Python object identity:     *)
(*    the contextual view holds the same objects as the long-term list,    *)
(*    so an in-place update is applied to both.                            *)
(***************************************************************************)
EXTENDS Integers, Sequences, FiniteSets, TLC

VARIABLES
    memory,          \* the global `memory`: long_term and contextual tiers
    pending_action,  \* the global `pending_action` (None or an intent)
    disk,            \* the content of memory_file (NoFile before any save)
    clock,           \* datetime.now(): [sec, usec]
    next_id,         \* identity of the next reminder object created
    call,            \* the most recent operation: arguments, path, outputs
    last_tick,       \* the clock value of the latest check_reminders iteration
    used,            \* how many handle_action calls have happened, and how
                     \* many times each reminder has been announced by a tick
    sched,           \* the check_reminders thread: position and locals
    is_listening,    \* the global `is_listening`
    sessions         \* the listen_and_process threads started: positions

vars == <<memory, pending_action, disk, clock, next_id, call, last_tick, used,
          sched, is_listening, sessions>>

\* the variables of the utterance-capture sessions
listener == <<is_listening, sessions>>

-----------------------------------------------------------------------------
(* Program constants *)

CONTEXT_WINDOW_DAYS == 7
LONG_TERM_WINDOW_DAYS == 365
MAX_CONTEXT_CONVERSATIONS == 50
MAX_ACTIVE_CONTEXT == 10
SecondsPerDay == 86400
DueSoonWindow == 300

\* time.sleep(30) between two iterations of check_reminders
TickPeriod == 30
LastConversations == 5

-----------------------------------------------------------------------------
(* Bounds of the model *)

MaxCalls == 3        \* handle_action calls in one behaviour

-----------------------------------------------------------------------------
(* Python str operations *)

UpperCase == <<"A","B","C","D","E","F","G","H","I","J","K","L","M",
               "N","O","P","Q","R","S","T","U","V","W","X","Y","Z">>
LowerCase == <<"a","b","c","d","e","f","g","h","i","j","k","l","m",
               "n","o","p","q","r","s","t","u","v","w","x","y","z">>
Whitespace == {" ", "\t", "\n"}

LowerChar(c) ==
    IF \E i \in DOMAIN UpperCase : UpperCase[i] = c
    THEN LowerCase[CHOOSE i \in DOMAIN UpperCase : UpperCase[i] = c]
    ELSE c

\* str.lower()
Lower(s) == [i \in DOMAIN s |-> LowerChar(s[i])]

SetMin(S) == CHOOSE x \in S : \A y \in S : x <= y
SetMax(S) == CHOOSE x \in S : \A y \in S : y <= x

\* str.strip()
Strip(s) ==
    LET keep == {i \in DOMAIN s : s[i] \notin Whitespace}
    IN  IF keep = {} THEN <<>> ELSE SubSeq(s, SetMin(keep), SetMax(keep))

\* `sub in s` for two strs
Contains(s, sub) ==
    \E i \in 0..(Len(s) - Len(sub)) : SubSeq(s, i + 1, i + Len(sub)) = sub

\* set(s.split()): the maximal runs of non-whitespace characters
Words(s) ==
    {SubSeq(s, i, j) : <<i, j>> \in
        {p \in (DOMAIN s) \X (DOMAIN s) :
            /\ p[1] <= p[2]
            /\ \A k \in p[1]..p[2] : s[k] \notin Whitespace
            /\ (p[1] = 1 \/ s[p[1] - 1] \in Whitespace)
            /\ (p[2] = Len(s) \/ s[p[2] + 1] \in Whitespace)}}

\* s[:n] and s[-n:] for a list
Prefix(s, n) == SubSeq(s, 1, IF Len(s) < n THEN Len(s) ELSE n)
Suffix(s, n) == SubSeq(s, IF Len(s) < n THEN 1 ELSE Len(s) - n + 1, Len(s))

Range(s) == {s[i] : i \in DOMAIN s}

-----------------------------------------------------------------------------
(* Time *)

\* now.strftime("%Y-%m-%d %H:%M:%S"): the sub-second part is dropped
strftime(t) == t.sec

\* datetime.strptime(s, "%Y-%m-%d %H:%M:%S")
strptime(s) == [sec |-> s, usec |-> 0]

\* a < b for two datetimes
Before(a, b) == a.sec < b.sec \/ (a.sec = b.sec /\ a.usec < b.usec)

\* (a - b).days: timedelta normalises to days = floor, 0 <= rest < 1 day
Days(a, b) ==
    (IF a.usec < b.usec THEN a.sec - b.sec - 1 ELSE a.sec - b.sec)
        \div SecondsPerDay

\* (a - b).total_seconds() <= n and 0 < (a - b).total_seconds(), n an integer
SecondsAtMost(a, b, n) ==
    a.sec - b.sec < n \/ (a.sec - b.sec = n /\ a.usec <= b.usec)
SecondsPositive(a, b) == Before(b, a)


-----------------------------------------------------------------------------
(* Values *)

\* Python None
None == [none |-> TRUE]

\* memory_file does not exist
NoFile == [nofile |-> TRUE]

\* the module-level initial value of `memory`
EmptyMemory ==
    [long_term |->
        [facts |-> <<>>, preferences |-> {}, events |-> <<>>,
         reminders |-> <<>>, conversations |-> <<>>],
     contextual |->
        [recent_conversations |-> <<>>, active_context |-> <<>>,
         relevant_facts |-> <<>>, upcoming_events |-> <<>>,
         active_reminders |-> <<>>]]

\* r.get("status") == "active"
IsActive(r) == "status" \in DOMAIN r /\ r.status = "active"

\* [r for r in memory["long_term"]["reminders"] if r.get("status") == "active"]
ActiveReminders(mem) == SelectSeq(mem.long_term.reminders, IsActive)

\* reminder["status"] = "completed"; reminder["completed_at"] = t
Completed(r, t) ==
    [id |-> r.id, message |-> r.message, datetime |-> r.datetime,
     created_at |-> r.created_at, status |-> "completed", completed_at |-> t]

\* the in-place update of the reminder objects `ids`, seen through one list
StampIn(list, ids, t) ==
    [i \in DOMAIN list |->
        IF list[i].id \in ids THEN Completed(list[i], t) ELSE list[i]]

\* the same update seen through every list of `memory` holding the objects
StampReminders(mem, ids, t) ==
    [mem EXCEPT
        !.long_term.reminders = StampIn(@, ids, t),
        !.contextual.active_reminders = StampIn(@, ids, t)]

-----------------------------------------------------------------------------
(* The running operation: w = the globals it works on and what it emits *)

World(mem, pend, dsk, nid) ==
    [memory |-> mem, pending_action |-> pend, disk |-> dsk, next_id |-> nid,
     effects |-> <<>>, path |-> "", ret |-> None]

Emit(w, e) == [w EXCEPT !.effects = Append(@, e)]

\* speak(text)
speak(w, text) == Emit(w, [e |-> "speak", text |-> text])

\* show_notification(title, message, timeout)
show_notification(w, title, message) ==
    Emit(w, [e |-> "notify", title |-> title, message |-> message])

\* what open(memory_file, 'w') leaves when json.dump fails after it
Truncated == [truncated |-> TRUE]

\* the memory file cannot be written: `failing` says whether open() or
\* json.dump() raises, `content` is what the file holds
IsFailing(dsk) == "failing" \in DOMAIN dsk

\* A failed flush also throws the in-memory collections away.
save_memory_reverting(w) ==
    IF IsFailing(w.disk)
    THEN Emit([w EXCEPT !.memory.long_term = EmptyMemory.long_term],
              [e |-> "save_failed"])
    ELSE Emit([w EXCEPT !.disk = w.memory], [e |-> "save"])

\* save_memory(): json.dump(memory, f)
save_memory(w) ==
    IF IsFailing(w.disk)
    THEN Emit([w EXCEPT !.disk.content =
                    IF w.disk.failing = "open" THEN @ ELSE Truncated],
              [e |-> "save_failed"])
    ELSE Emit([w EXCEPT !.disk = w.memory], [e |-> "save"])

\* Facts are matched on whole words of their content.
RelevantFactsByToken(facts, recent) ==
    LET last == Suffix(recent, LastConversations)
        recent_topics == UNION {Words(Lower(last[i].text)) : i \in DOMAIN last}
        Relevant(fact) == Words(Lower(fact.content)) \cap recent_topics # {}
    IN  Prefix(SelectSeq(facts, Relevant), MAX_ACTIVE_CONTEXT)

\* memory["contextual"]["relevant_facts"], from the recent conversations
RelevantFacts(facts, recent) ==
    LET last == Suffix(recent, LastConversations)
        recent_topics == UNION {Words(Lower(last[i].text)) : i \in DOMAIN last}
        Relevant(fact) ==
            \E topic \in recent_topics : Contains(Lower(fact.content), topic)
    IN  Prefix(SelectSeq(facts, Relevant), MAX_ACTIVE_CONTEXT)

\* memory["contextual"]["recent_conversations"]
RecentConversations(conversations, now) ==
    LET InWindow(conv) ==
            Days(now, strptime(conv.timestamp)) <= CONTEXT_WINDOW_DAYS
    IN  Suffix(SelectSeq(conversations, InWindow), MAX_CONTEXT_CONVERSATIONS)

\* memory["contextual"]["upcoming_events"]
UpcomingEvents(events, now) ==
    LET Upcoming(event) ==
            SecondsAtMost(strptime(event.datetime), now, SecondsPerDay)
    IN  SelectSeq(events, Upcoming)

\* Upcoming events accumulate instead of being recomputed.
RefreshedAccumulating(ctx, lt, recent, now) ==
    [ctx EXCEPT
        !.recent_conversations = recent,
        !.upcoming_events = @ \o UpcomingEvents(lt.events, now),
        !.active_reminders = SelectSeq(lt.reminders, IsActive),
        !.relevant_facts = RelevantFacts(lt.facts, recent)]

\* the contextual tier as update_contextual_memory recomputes it
Refreshed(ctx, lt, recent, now) ==
    [ctx EXCEPT
        !.recent_conversations = recent,
        !.upcoming_events = UpcomingEvents(lt.events, now),
        !.active_reminders = SelectSeq(lt.reminders, IsActive),
        !.relevant_facts = RelevantFacts(lt.facts, recent)]

\* update_contextual_memory()
update_contextual_memory(w, now) ==
    Emit([w EXCEPT !.memory.contextual =
            Refreshed(@, w.memory.long_term,
                      RecentConversations(w.memory.long_term.conversations, now),
                      now)],
         [e |-> "refresh"])

\* The active reminders are removed from the list instead of being stamped.
clear_reminders_deleting(w, now) ==
    LET active_reminders == ActiveReminders(w.memory)
    IN  IF active_reminders = <<>>
        THEN [w EXCEPT !.ret = [kind |-> "none_to_clear"]]
        ELSE [save_memory(Emit(
                [w EXCEPT !.memory.long_term.reminders =
                    SelectSeq(@, LAMBDA r : ~IsActive(r))],
                [e |-> "mutate"]))
              EXCEPT !.ret = [kind |-> "cleared", n |-> Len(active_reminders)]]

\* clear_reminders()
clear_reminders(w, now) ==
    LET active_reminders == ActiveReminders(w.memory)
        ids == {active_reminders[i].id : i \in DOMAIN active_reminders}
    IN  IF active_reminders = <<>>
        THEN [w EXCEPT !.ret = [kind |-> "none_to_clear"]]
        ELSE [save_memory(Emit(
                [w EXCEPT !.memory = StampReminders(@, ids, strftime(now))],
                [e |-> "mutate"]))
              EXCEPT !.ret = [kind |-> "cleared", n |-> Len(active_reminders)]]

\* clear_all_memory()
clear_all_memory(w) ==
    [save_memory(Emit(
        [w EXCEPT !.memory.long_term =
            [reminders |-> <<>>, facts |-> <<>>, events |-> <<>>,
             preferences |-> {}, conversations |-> <<>>]],
        [e |-> "mutate"]))
     EXCEPT !.ret = [kind |-> "cleared_all"]]

\* NormFact without the strip()
NormFactNoStrip(content) == Lower(content)

\* fact["content"].lower().strip()
NormFact(content) == Strip(Lower(content))

\* the "Remove duplicate facts" loop of clean_memory
RECURSIVE UniqueFacts(_, _)
UniqueFacts(fs, seen_facts) ==
    IF fs = <<>> THEN <<>>
    ELSE IF NormFact(Head(fs).content) \in seen_facts
         THEN UniqueFacts(Tail(fs), seen_facts)
         ELSE <<Head(fs)>> \o
              UniqueFacts(Tail(fs), seen_facts \cup {NormFact(Head(fs).content)})

\* Fresh with the comparison off by one day
FreshOffByOne(now, s) == Days(now, strptime(s)) <= LONG_TERM_WINDOW_DAYS

\* the age test of clean_memory: (now - strptime(s)).days < LONG_TERM_WINDOW_DAYS
Fresh(now, s) == Days(now, strptime(s)) < LONG_TERM_WINDOW_DAYS

\* the reminders clean_memory keeps
KeepReminder(now, r) ==
    IsActive(r) \/ ("completed_at" \in DOMAIN r /\ Fresh(now, r.completed_at))

\* the four list comprehensions and the duplicate-fact loop of clean_memory
Swept(lt, now) ==
    LET KeepR(r) == KeepReminder(now, r)
        KeepE(e) == Fresh(now, e.datetime)
        KeepT(x) == Fresh(now, x.timestamp)
    IN  [lt EXCEPT
            !.reminders = SelectSeq(@, KeepR),
            !.events = SelectSeq(@, KeepE),
            !.facts = UniqueFacts(SelectSeq(@, KeepT), {}),
            !.conversations = SelectSeq(@, KeepT)]

\* clean_memory()
clean_memory(w, now) ==
    save_memory(update_contextual_memory(
        Emit([w EXCEPT !.memory.long_term = Swept(@, now)], [e |-> "sweep"]), now))

-----------------------------------------------------------------------------
(* handle_action(action_data, original_text) *)

\* the character strings the code compares against or emits
str_yes == <<"y","e","s">>
str_based_on == <<"B","a","s","e","d"," ","o","n"," ","m","y"," ",
                  "r","e","c","o","r","d","s",","," ">>

\* `pending_action and "yes" in original_text.lower()`
Affirmed(pend, original_text) ==
    pend # None /\ Contains(Lower(original_text), str_yes)

\* memory["long_term"]["conversations"].append({...})
AppendConversation(w, action_data, original_text, now) ==
    Emit([w EXCEPT !.memory.long_term.conversations =
            Append(@, [text |-> original_text, action |-> action_data.action,
                       timestamp |-> strftime(now)])],
         [e |-> "mutate", what |-> "conversations"])

\* memory["long_term"]["events"].append({...})
AppendEvent(w, reminder_data, now) ==
    Emit([w EXCEPT !.memory.long_term.events =
            Append(@, [description |-> reminder_data.message,
                       datetime |-> reminder_data.suggested_time,
                       created_at |-> strftime(now)])],
         [e |-> "mutate", what |-> "events"])

\* memory["long_term"]["reminders"].append({...})
AppendReminder(w, reminder_data, now) ==
    Emit([w EXCEPT
            !.memory.long_term.reminders =
                Append(@, [id |-> w.next_id,
                           message |-> reminder_data.message,
                           datetime |-> reminder_data.suggested_time,
                           created_at |-> strftime(now),
                           status |-> "active"]),
            !.next_id = @ + 1],
         [e |-> "mutate", what |-> "reminders"])

\* an exception reaches `except Exception` of handle_action
Raise(w, where) == [w EXCEPT !.path = where, !.ret = [raised |-> TRUE]]

Return(w, where) == [w EXCEPT !.path = where]

\* response = f(); speak(response); show_notification(title, response)
Announce(c, title) == show_notification(speak(c, c.ret), title, c.ret)

\* the `if pending_action and "yes" in original_text.lower():` block
HandleConfirmation(w, now) ==
    LET pend == w.pending_action
        done(x, where) == Return([x EXCEPT !.pending_action = None], where)
    IN  IF pend.action = "clear_reminders"
        THEN done(Announce(clear_reminders(w, now), "Reminders Cleared"),
                  "confirm_clear_reminders")
        ELSE IF pend.action = "clear_all_memory"
        THEN done(Announce(clear_all_memory(w), "Memory Cleared"),
                  "confirm_clear_all_memory")
        ELSE IF pend.action = "set_reminder"
        THEN LET reminder_data == pend.data
             IN  IF "type" \notin DOMAIN reminder_data
                 THEN Raise(w, "confirm_set_reminder_keyerror")
                 ELSE LET ins == IF reminder_data.type = "event"
                                 THEN AppendEvent(w, reminder_data, now)
                                 ELSE AppendReminder(w, reminder_data, now)
                          response ==
                              [kind |-> IF reminder_data.type = "event"
                                        THEN "added_event" ELSE "set_reminder",
                               message |-> reminder_data.message,
                               time |-> reminder_data.suggested_time]
                      IN  done(show_notification(
                                  save_memory(speak(ins, response)),
                                  "Memory Updated",
                                  [kind |-> "added", type |-> reminder_data.type,
                                   message |-> Prefix(reminder_data.message, 50)]),
                               "confirm_set_reminder")
        ELSE done(w, "confirm_other")

\* SortByDatetime with the sort left out
InStoredOrder(list) == list

\* active_reminders.sort(key=lambda x: x["datetime"]): a stable sort
SortByDatetime(list) ==
    LET order == SortSeq([i \in DOMAIN list |-> i],
                         LAMBDA a, b :
                            \/ list[a].datetime < list[b].datetime
                            \/ (list[a].datetime = list[b].datetime /\ a < b))
    IN  [k \in DOMAIN list |-> list[order[k]]]

\* the read_back_reminders branch
HandleReadBack(w) ==
    LET active_reminders == ActiveReminders(w.memory)
        sorted == SortByDatetime(active_reminders)
        response ==
            IF active_reminders = <<>>
            THEN [kind |-> "no_active_reminders"]
            ELSE [kind |-> "active_reminders",
                  list |-> [k \in DOMAIN sorted |->
                              [message |-> sorted[k].message,
                               datetime |-> sorted[k].datetime]]]
    IN  Return(show_notification(speak(w, response), "Active Reminders", response),
               "read_back_reminders")

\* the clear_reminders branch
HandleClearReminders(w, action_data, now) ==
    LET active_reminders == ActiveReminders(w.memory)
    IN  IF active_reminders = <<>>
        THEN Return(speak(w, [kind |-> "none_to_clear"]), "clear_reminders_none")
        ELSE IF "needs_confirmation" \in DOMAIN action_data
                /\ action_data.needs_confirmation
        THEN Return(speak([w EXCEPT !.pending_action = action_data],
                          [kind |-> "confirm_clear_reminders",
                           n |-> Len(active_reminders)]),
                    "clear_reminders_ask")
        ELSE Return(Announce(clear_reminders(w, now), "Reminders Cleared"),
                    "clear_reminders_direct")

\* HandleClearAll with the confirmation test left out
HandleClearAllUngated(w, action_data) ==
    Return(Announce(clear_all_memory(w), "Memory Cleared"),
           "clear_all_memory_direct")

\* the clear_all_memory branch
HandleClearAll(w, action_data) ==
    IF "needs_confirmation" \in DOMAIN action_data
       /\ action_data.needs_confirmation
    THEN Return(speak([w EXCEPT !.pending_action = action_data],
                      [kind |-> "confirm_clear_all_memory"]),
                "clear_all_memory_ask")
    ELSE Return(Announce(clear_all_memory(w), "Memory Cleared"),
                "clear_all_memory_direct")

\* the duplicate test of the event branch
DuplicateEvent(mem, reminder_data) ==
    \E i \in DOMAIN mem.long_term.events :
        /\ Lower(mem.long_term.events[i].description) = Lower(reminder_data.message)
        /\ mem.long_term.events[i].datetime = reminder_data.suggested_time

\* the duplicate test of the reminder branch
DuplicateReminder(mem, reminder_data) ==
    \E i \in DOMAIN mem.long_term.reminders :
        /\ Lower(mem.long_term.reminders[i].message) = Lower(reminder_data.message)
        /\ mem.long_term.reminders[i].datetime = reminder_data.suggested_time

\* the set_reminder branch; "tail" means control reaches clean_memory
HandleSetReminder(w, action_data, now) ==
    LET reminder_data == IF "data" \in DOMAIN action_data
                         THEN action_data.data ELSE <<>>
    IN  IF \/ DOMAIN reminder_data = {}
           \/ "message" \notin DOMAIN reminder_data
           \/ "suggested_time" \notin DOMAIN reminder_data
        THEN Return(w, "set_reminder_invalid")
        ELSE IF Before(strptime(reminder_data.suggested_time), now)
        THEN LET response == [kind |-> "time_passed_ask_tomorrow"]
             IN  Return([speak(w, response) EXCEPT !.pending_action =
                            [action |-> "set_reminder", data |-> reminder_data,
                             confirmation_message |-> response]],
                        "set_reminder_past_ask")
        ELSE IF "needs_confirmation" \in DOMAIN reminder_data
                /\ reminder_data.needs_confirmation
        THEN LET response ==
                    IF "confirmation_message" \in DOMAIN reminder_data
                    THEN reminder_data.confirmation_message
                    ELSE [kind |-> "confirm_set_reminder"]
             IN  Return(speak([w EXCEPT !.pending_action =
                                [action |-> "set_reminder", data |-> reminder_data,
                                 confirmation_message |-> response]],
                              response),
                        "set_reminder_ask")
        ELSE IF "type" \notin DOMAIN reminder_data
        THEN Raise(w, "set_reminder_keyerror")
        ELSE IF reminder_data.type = "event"
                /\ DuplicateEvent(w.memory, reminder_data)
        THEN Return(speak(w, [kind |-> "event_exists_ask_update"]),
                    "set_reminder_duplicate_event")
        ELSE IF reminder_data.type # "event"
                /\ DuplicateReminder(w.memory, reminder_data)
        THEN Return(speak(w, [kind |-> "reminder_exists_ask_update"]),
                    "set_reminder_duplicate_reminder")
        ELSE LET ins == IF reminder_data.type = "event"
                        THEN AppendEvent(w, reminder_data, now)
                        ELSE AppendReminder(w, reminder_data, now)
                 response ==
                     [kind |-> IF reminder_data.type = "event"
                               THEN "added_event" ELSE "set_reminder",
                      message |-> reminder_data.message,
                      time |-> reminder_data.suggested_time]
             IN  [show_notification(
                     save_memory(speak(ins, response)),
                     "Memory Updated",
                     [kind |-> "added", type |-> reminder_data.type,
                      message |-> Prefix(reminder_data.message, 50)])
                  EXCEPT !.path = "tail_set_reminder"]

\* the duplicate test of the remember_fact branch
KnownFact(mem, content) ==
    \E i \in DOMAIN mem.long_term.facts :
        NormFact(mem.long_term.facts[i].content) = NormFact(content)

\* the remember_fact branch
HandleRememberFact(w, action_data, now) ==
    IF "content" \notin DOMAIN action_data \/ "category" \notin DOMAIN action_data
    THEN Return(w, "remember_fact_invalid")
    ELSE IF KnownFact(w.memory, action_data.content)
    THEN Return(speak(w, [kind |-> "already_know",
                          content |-> action_data.content]),
                "remember_fact_duplicate")
    ELSE LET ins == Emit([w EXCEPT !.memory.long_term.facts =
                            Append(@, [content |-> action_data.content,
                                       category |-> action_data.category,
                                       timestamp |-> strftime(now)])],
                         [e |-> "mutate", what |-> "facts"])
         IN  [show_notification(
                 save_memory(speak(ins, [kind |-> "noted",
                                         content |-> action_data.content])),
                 "Memory Updated",
                 [kind |-> "remembered",
                  content |-> Prefix(action_data.content, 50)])
              EXCEPT !.path = "tail_remember_fact"]

\* the query_memory and general_query branches
HandleQuery(w, action_data) ==
    IF "response" \notin DOMAIN action_data
    THEN Return(w, "query_invalid")
    ELSE LET response ==
                [kind |-> "text",
                 text |-> IF action_data.action = "query_memory"
                          THEN str_based_on \o action_data.response
                          ELSE action_data.response]
         IN  [show_notification(
                 speak(w, response),
                 IF action_data.action = "query_memory"
                 THEN "Memory Query" ELSE "Assistant Response",
                 [kind |-> "text", text |-> action_data.response])
              EXCEPT !.path = "tail_query"]

\* is control at "# Clean up memory after each action"?
AtTail(w) == w.path \in
    {"tail_set_reminder", "tail_remember_fact", "tail_query", "tail_unknown"}

\* the branches of handle_action after the contextual refresh
Dispatch(w, action_data, original_text, now) ==
    IF Affirmed(w.pending_action, original_text)
    THEN HandleConfirmation(w, now)
    ELSE IF action_data.action = "read_back_reminders"
    THEN HandleReadBack(w)
    ELSE IF action_data.action = "clear_reminders"
    THEN HandleClearReminders(w, action_data, now)
    ELSE IF action_data.action = "clear_all_memory"
    THEN HandleClearAll(w, action_data)
    ELSE IF action_data.action = "set_reminder"
    THEN HandleSetReminder(w, action_data, now)
    ELSE IF action_data.action = "remember_fact"
    THEN HandleRememberFact(w, action_data, now)
    ELSE IF action_data.action \in {"query_memory", "general_query"}
    THEN HandleQuery(w, action_data)
    ELSE Return(w, "tail_unknown")

\* "# Clean up memory after each action", reached unless a branch returned
AfterAction(w, now) == IF AtTail(w) THEN clean_memory(w, now) ELSE w

\* handle_action(action_data, original_text), run at clock value `now`
handle_action(w, action_data, original_text, now) ==
    AfterAction(Dispatch(update_contextual_memory(
                    AppendConversation(w, action_data, original_text, now), now),
                action_data, original_text, now),
        now)

-----------------------------------------------------------------------------
(* check_reminders(): one iteration of the `while True` loop *)

\* Passed with <= in place of <
PassedOrNow(r, now) == ~Before(now, strptime(r.datetime))

\* Passed with the comparison turned round
NotYetDue(r, now) == Before(now, strptime(r.datetime))

\* "If reminder time has passed": reminder_time < now
Passed(r, now) == Before(strptime(r.datetime), now)

\* DueSoon with 0 <= in place of 0 <
DueSoonOrNow(r, now) ==
    /\ ~Before(strptime(r.datetime), now)
    /\ SecondsAtMost(strptime(r.datetime), now, DueSoonWindow)

\* 0 < (reminder_time - now).total_seconds() <= 300
DueSoon(r, now) ==
    /\ SecondsPositive(strptime(r.datetime), now)
    /\ SecondsAtMost(strptime(r.datetime), now, DueSoonWindow)

\* the "Notify about upcoming reminders" loop
RECURSIVE NotifyUpcoming(_, _)
NotifyUpcoming(w, upcoming_reminders) ==
    IF upcoming_reminders = <<>> THEN w
    ELSE NotifyUpcoming(
            show_notification(
                speak(w, [kind |-> "reminder",
                          id |-> Head(upcoming_reminders).id,
                          message |-> Head(upcoming_reminders).message]),
                "Upcoming Reminder",
                [kind |-> "reminder",
                 id |-> Head(upcoming_reminders).id,
                 message |-> Head(upcoming_reminders).message]),
            Tail(upcoming_reminders))

\* the reminders the loop marks completed, and those it collects to notify
PassedIds(active, now) == {active[i].id : i \in {j \in DOMAIN active : Passed(active[j], now)}}

UpcomingOf(active, now) ==
    LET IsSoon(r) == ~Passed(r, now) /\ DueSoon(r, now)
    IN  SelectSeq(active, IsSoon)

\* the loop over memory["long_term"]["reminders"][:]
MarkPassed(w, ids, now) ==
    IF ids = {} THEN w
    ELSE Emit([w EXCEPT !.memory = StampReminders(@, ids, strftime(now))],
              [e |-> "mutate", what |-> "reminders"])

\* The tick also drops a held PendingAction.
check_reminders_expiring(w, now) ==
    [Return(NotifyUpcoming(MarkPassed(w, PassedIds(ActiveReminders(w.memory), now), now),
                           UpcomingOf(ActiveReminders(w.memory), now)),
            "check_reminders")
     EXCEPT !.pending_action = None]

\* one iteration of check_reminders at clock value `now`
check_reminders(w, now) ==
    Return(NotifyUpcoming(MarkPassed(w, PassedIds(ActiveReminders(w.memory), now), now),
                          UpcomingOf(ActiveReminders(w.memory), now)),
           "check_reminders")

-----------------------------------------------------------------------------
(* Inputs *)

msg_call_mom == <<"c","a","l","l"," ","m","o","m">>
msg_Call_Mom == <<"C","a","l","l"," ","M","o","m">>
fact_tea == <<"I"," ","l","i","k","e"," ","t","e","a">>
fact_tea_spaced == <<" ","i"," ","l","i","k","e"," ","T","E","A"," ">>
fact_mom == <<"m","o","m">>
txt_yes_please == <<"Y","e","s"," ","p","l","e","a","s","e">>
txt_no_thanks == <<"n","o"," ","t","h","a","n","k","s">>
txt_answer == <<"t","e","a">>

\* the suggested_time values the collaborator sends: one already past at the
\* first clock value, one two minutes ahead of it
SuggestedTimes == {-60, 120}

\* set_reminder intents: data with and without `type` and `needs_confirmation`
SetReminderIntents ==
    {[action |-> "set_reminder", message |-> "ok", data |-> d] : d \in
        {[message |-> m, suggested_time |-> t, type |-> ty] :
            m \in {msg_call_mom, msg_Call_Mom}, t \in SuggestedTimes,
            ty \in {"reminder", "event"}}
        \cup {[message |-> msg_call_mom, suggested_time |-> 120, type |-> ty,
               needs_confirmation |-> TRUE] : ty \in {"reminder", "event"}}
        \cup {[message |-> msg_call_mom, suggested_time |-> 120,
               needs_confirmation |-> TRUE],
              [message |-> msg_call_mom, suggested_time |-> 120],
              [message |-> msg_call_mom]}}

ClearIntents ==
    {[action |-> a, message |-> "ok", needs_confirmation |-> TRUE] :
        a \in {"clear_reminders", "clear_all_memory"}}
    \cup {[action |-> a, message |-> "ok"] :
        a \in {"clear_reminders", "clear_all_memory"}}

\* remember_fact with the fields where the code reads them (top level) and
\* where the documented format puts them (inside data)
FactIntents ==
    {[action |-> "remember_fact", message |-> "ok", content |-> c,
      category |-> "preference"] : c \in {fact_tea, fact_tea_spaced, fact_mom}}
    \cup {[action |-> "remember_fact", message |-> "ok",
           data |-> [content |-> fact_tea, category |-> "preference"]]}

QueryIntents ==
    {[action |-> "general_query", message |-> "ok", response |-> txt_answer],
     [action |-> "query_memory", message |-> "ok", response |-> txt_answer],
     [action |-> "general_query", message |-> "ok",
      data |-> [response |-> txt_answer]],
     [action |-> "read_back_reminders", message |-> "ok"]}

Intents == SetReminderIntents \cup ClearIntents \cup FactIntents \cup QueryIntents

Texts == {txt_yes_please, txt_no_thanks}

\* the clock values at which operations run: the start, the suggested time
\* 120 to the microsecond, some time within that second, and 150 s more
\* than LONG_TERM_WINDOW_DAYS after the start
Instants ==
    {[sec |-> 0, usec |-> 0], [sec |-> 120, usec |-> 0], [sec |-> 120, usec |-> 1],
     [sec |-> LONG_TERM_WINDOW_DAYS * SecondsPerDay + 150, usec |-> 0]}

-----------------------------------------------------------------------------
(* The state machine *)

\* the announcements of `effects` added to the count kept per reminder id
RECURSIVE Tally(_, _)
Tally(notices, effects) ==
    IF effects = <<>> THEN notices
    ELSE IF Head(effects).e = "speak"
    THEN Tally([k \in DOMAIN notices \cup {Head(effects).text.id} |->
                    IF k = Head(effects).text.id
                    THEN (IF k \in DOMAIN notices THEN notices[k] ELSE 0) + 1
                    ELSE notices[k]],
               Tail(effects))
    ELSE Tally(notices, Tail(effects))

\* the scheduler thread between two iterations
Asleep == [pc |-> "sleep", now |-> [sec |-> 0, usec |-> 0], items |-> <<>>,
           upcoming |-> <<>>]

\* memory["long_term"]["reminders"][:] holds the reminder objects themselves:
\* an object still in the list is seen with the fields it has there, one
\* removed from the list keeps the fields it had
SeenThrough(items, mem) ==
    [i \in DOMAIN items |->
        IF \E j \in DOMAIN mem.long_term.reminders :
                mem.long_term.reminders[j].id = items[i].id
        THEN mem.long_term.reminders[
                CHOOSE j \in DOMAIN mem.long_term.reminders :
                    mem.long_term.reminders[j].id = items[i].id]
        ELSE items[i]]

Init ==
    /\ memory = EmptyMemory
    /\ pending_action = None
    /\ disk = NoFile
    /\ clock = [sec |-> 0, usec |-> 0]
    /\ next_id = 1
    /\ call = [op |-> "main"]
    /\ last_tick = None
    /\ used = [calls |-> 0, notices |-> <<>>]
    /\ sched = Asleep
    /\ is_listening = FALSE
    /\ sessions = <<>>

\* the operation ends: its world becomes the globals, and `call` records it
Commit(w, args) ==
    /\ memory' = w.memory
    /\ pending_action' = w.pending_action
    /\ disk' = w.disk
    /\ next_id' = w.next_id
    /\ call' = [args EXCEPT !.path = w.path, !.effects = w.effects]

\* a listen_and_process session, from the flag test to the `finally`, whose
\* utterance reaches handle_action(action_data, original_text)
HandleAction(action_data, original_text) ==
    /\ used.calls < MaxCalls
    /\ Commit(handle_action(World(memory, pending_action, disk, next_id),
                            action_data, original_text, clock),
              [op |-> "handle_action", action_data |-> action_data,
               original_text |-> original_text, now |-> clock,
               path |-> "", effects |-> <<>>])
    /\ used' = [used EXCEPT !.calls = @ + 1]
    /\ sched' = [sched EXCEPT !.items = SeenThrough(@, memory')]
    /\ is_listening' = FALSE
    /\ UNCHANGED <<clock, last_tick, sessions>>

\* the scheduler thread runs one iteration of check_reminders; it sleeps 30 s
\* between two iterations, so no two of them read the same clock value
CheckReminders ==
    /\ sched.pc = "sleep"
    /\ last_tick # clock
    /\ Commit(check_reminders(World(memory, pending_action, disk, next_id), clock),
              [op |-> "check_reminders", now |-> clock,
               path |-> "", effects |-> <<>>])
    /\ last_tick' = clock
    /\ used' = [used EXCEPT !.notices = Tally(@, call'.effects)]
    /\ UNCHANGED <<clock, sched>>
    /\ UNCHANGED listener

\* time passes
AdvanceClock(t) ==
    /\ Before(clock, t)
    /\ clock' = t
    /\ UNCHANGED <<memory, pending_action, disk, next_id, call, last_tick, used, sched>>
    /\ UNCHANGED listener

Next ==
    \/ \E a \in Intents, t \in Texts : HandleAction(a, t)
    \/ CheckReminders
    \/ \E t \in Instants : AdvanceClock(t)

Spec == Init /\ [][Next]_vars

-----------------------------------------------------------------------------
(* The confirmation gate: destructive intents, a reminder and a query *)

GateIntents ==
    ClearIntents
    \cup {[action |-> "set_reminder", message |-> "ok", data |-> d] : d \in
            {[message |-> msg_call_mom, suggested_time |-> 120, type |-> "reminder"],
             [message |-> msg_call_mom, suggested_time |-> 120,
              needs_confirmation |-> TRUE]}}
    \cup {[action |-> "general_query", message |-> "ok", response |-> txt_answer]}

NextGate == \E a \in GateIntents, t \in Texts : HandleAction(a, t)

SpecGate == Init /\ [][NextGate]_vars

-----------------------------------------------------------------------------
(* Vocabulary of the properties *)

\* this step is one handle_action call
IsCallStep == used'.calls # used.calls

\* this step is one check_reminders iteration
IsTickStep == last_tick' # last_tick

\* the intent is clear_reminders or clear_all_memory
IsClear(a) == a.action \in {"clear_reminders", "clear_all_memory"}

\* action_data.get("needs_confirmation", False)
Flagged(a) == "needs_confirmation" \in DOMAIN a /\ a.needs_confirmation

\* the record handle_action logs for the call just made
ConversationOf(c) ==
    [text |-> c.original_text, action |-> c.action_data.action,
     timestamp |-> c.now.sec]

\* the step changed long-term memory by appending that record and nothing else
OnlyConversationAppended ==
    memory'.long_term =
        [memory.long_term EXCEPT !.conversations = Append(@, ConversationOf(call'))]

\* the paths of handle_action that carry out a held PendingAction
ConfirmPaths ==
    {"confirm_clear_reminders", "confirm_clear_all_memory", "confirm_set_reminder"}

\* the paths of handle_action that store a new PendingAction
AskPaths ==
    {"clear_reminders_ask", "clear_all_memory_ask", "set_reminder_ask",
     "set_reminder_past_ask"}

\* the long-term collections clear_all_memory is documented to empty
Emptied(lt) ==
    lt.reminders = <<>> /\ lt.events = <<>> /\ lt.facts = <<>>
        /\ lt.conversations = <<>>

-----------------------------------------------------------------------------
(* C1 *)

\* C1 as claimed: the handle_action call that receives a clear_reminders or
\* clear_all_memory intent with needs_confirmation=true leaves reminders,
\* events, facts, preferences and conversations as they were.
C1_StoreUntouched ==
    [][(IsCallStep /\ IsClear(call'.action_data) /\ Flagged(call'.action_data)
            /\ ~Affirmed(pending_action, call'.original_text))
        => memory'.long_term = memory.long_term]_vars

\* C1 amended: such a call changes no reminder, event, fact or preference and
\* appends only the utterance's own record to conversations; and a held clear
\* is carried out only by a call whose utterance contains "yes" while that
\* PendingAction is held, which then clears it.
C1_ClearGated ==
    [][IsCallStep =>
        /\ (IsClear(call'.action_data) /\ Flagged(call'.action_data)
                /\ ~Affirmed(pending_action, call'.original_text))
            => OnlyConversationAppended
        /\ call'.path \in {"confirm_clear_reminders", "confirm_clear_all_memory"}
            => /\ pending_action # None
               /\ IsClear(pending_action)
               /\ Contains(Lower(call'.original_text), str_yes)
               /\ pending_action' = None]_vars

\* a clear_reminders intent is held while the reminder it would clear is active
C1_Witness ==
    /\ call.op = "handle_action"
    /\ call.path = "clear_reminders_ask"
    /\ pending_action # None
    /\ pending_action.action = "clear_reminders"
    /\ ActiveReminders(memory) # <<>>

-----------------------------------------------------------------------------
(* C2 *)

\* C2 as claimed: from Idle every clear_all_memory intent, and every
\* clear_reminders intent while a reminder is active, is stored as
\* PendingAction and not executed, whether or not it carries the flag.
C2_AlwaysAsks ==
    [][(IsCallStep /\ pending_action = None /\ IsClear(call'.action_data)
            /\ (call'.action_data.action = "clear_reminders"
                    => ActiveReminders(memory) # <<>>))
        => (pending_action' = call'.action_data /\ OnlyConversationAppended)]_vars

-----------------------------------------------------------------------------
(* C3 *)

\* C3 as claimed: a call whose utterance has no affirmative token while a
\* PendingAction is held discards it: afterwards the dispatcher is Idle or
\* holds a PendingAction that this very call created.
C3_PendingDiscarded ==
    [][(IsCallStep /\ pending_action # None
            /\ ~Contains(Lower(call'.original_text), str_yes))
        => (pending_action' = None \/ call'.path \in AskPaths)]_vars

-----------------------------------------------------------------------------
(* C4 *)

\* C4 as claimed: a call whose utterance has an affirmative token while a
\* PendingAction is held carries the stored action out, does not execute the
\* arriving intent, and leaves the dispatcher Idle on every exit path.
C4_ConfirmedAndCleared ==
    [][(IsCallStep /\ Affirmed(pending_action, call'.original_text))
        => (call'.path \in ConfirmPaths /\ pending_action' = None)]_vars

-----------------------------------------------------------------------------
(* C5: set_reminder intents, direct and through the confirmation round-trip *)

DedupIntents ==
    {[action |-> "set_reminder", message |-> "ok", data |-> d] : d \in
        {[message |-> msg_call_mom, suggested_time |-> 120, type |-> "reminder"],
         [message |-> msg_Call_Mom, suggested_time |-> 120, type |-> "reminder"],
         [message |-> msg_call_mom, suggested_time |-> 120, type |-> "event"],
         [message |-> msg_call_mom, suggested_time |-> 120, type |-> "reminder",
          needs_confirmation |-> TRUE],
         [message |-> msg_call_mom, suggested_time |-> 120, type |-> "event",
          needs_confirmation |-> TRUE],
         [message |-> msg_call_mom, suggested_time |-> -60, type |-> "event"]}}

NextDedup == \E a \in DedupIntents, t \in Texts : HandleAction(a, t)

SpecDedup == Init /\ [][NextDedup]_vars

\* C5 as claimed: the store never holds two reminders, nor two events, with
\* the same message/description up to letter case and the same time.
C5_NoDuplicates ==
    LET rs == memory.long_term.reminders
        es == memory.long_term.events
    IN  /\ \A i, j \in DOMAIN rs :
            (i # j /\ rs[i].datetime = rs[j].datetime)
                => Lower(rs[i].message) # Lower(rs[j].message)
        /\ \A i, j \in DOMAIN es :
            (i # j /\ es[i].datetime = es[j].datetime)
                => Lower(es[i].description) # Lower(es[j].description)

-----------------------------------------------------------------------------
(* C6, C7: remember_fact intents, queries (which end in a sweep) and time *)

FactsIntents ==
    FactIntents
    \cup {[action |-> "general_query", message |-> "ok", response |-> txt_answer]}

NextFacts ==
    \/ \E a \in FactsIntents : HandleAction(a, txt_no_thanks)
    \/ \E t \in Instants : AdvanceClock(t)

SpecFacts == Init /\ [][NextFacts]_vars

\* C6: no two facts of the store have contents that are equal after
\* lower-casing and trimming whitespace.
C6_FactsDistinct ==
    LET fs == memory.long_term.facts
    IN  \A i, j \in DOMAIN fs :
            i # j => Strip(Lower(fs[i].content)) # Strip(Lower(fs[j].content))

\* two facts are stored and a third submission, equal to the first up to case
\* and surrounding whitespace, has just been turned down
C6_Witness ==
    /\ call.op = "handle_action"
    /\ call.path = "remember_fact_duplicate"
    /\ Len(memory.long_term.facts) = 2
    /\ call.action_data.content # memory.long_term.facts[1].content
    /\ Strip(Lower(call.action_data.content))
        = Strip(Lower(memory.long_term.facts[1].content))

\* the intent has the documented wire format: content and category in data
IsWireFact(a) ==
    /\ a.action = "remember_fact"
    /\ "data" \in DOMAIN a
    /\ {"content", "category"} \subseteq DOMAIN a.data

\* C7 as claimed: a remember_fact intent in the wire format submitted to an
\* empty store inserts exactly one fact, and submitted again with that fact
\* stored it is answered by the "already know" prompt and the count stays 1.
C7_WireFactStored ==
    [][(IsCallStep /\ IsWireFact(call'.action_data))
        => IF memory.long_term.facts = <<>>
           THEN /\ Len(memory'.long_term.facts) = 1
                /\ memory'.long_term.facts[1].content = call'.action_data.data.content
           ELSE (\E i \in DOMAIN memory.long_term.facts :
                    memory.long_term.facts[i].content = call'.action_data.data.content)
                => /\ call'.path = "remember_fact_duplicate"
                   /\ memory'.long_term.facts = memory.long_term.facts]_vars

-----------------------------------------------------------------------------
(* C9: the sweep at the end of handle_action, with entries of every kind *)

SweepIntents ==
    {[action |-> "set_reminder", message |-> "ok", data |-> d] : d \in
        {[message |-> msg_call_mom, suggested_time |-> 120, type |-> "reminder"],
         [message |-> msg_call_mom, suggested_time |-> 120, type |-> "event"]}}
    \cup {[action |-> "clear_reminders", message |-> "ok"],
          [action |-> "remember_fact", message |-> "ok", content |-> fact_tea,
           category |-> "preference"],
          [action |-> "general_query", message |-> "ok", response |-> txt_answer]}

NextSweep ==
    \/ \E a \in SweepIntents : HandleAction(a, txt_no_thanks)
    \/ \E t \in Instants : AdvanceClock(t)

SpecSweep == Init /\ [][NextSweep]_vars

\* the instant `s` lies more than LONG_TERM_WINDOW_DAYS days before `now`
OlderThanWindow(now, s) ==
    Before([sec |-> s + LONG_TERM_WINDOW_DAYS * SecondsPerDay, usec |-> 0], now)

\* no entry of the long-term tier is older than the window at `now`
NothingStale(lt, now) ==
    /\ \A i \in DOMAIN lt.reminders :
        lt.reminders[i].status = "completed"
            => ~OlderThanWindow(now, lt.reminders[i].completed_at)
    /\ \A i \in DOMAIN lt.events : ~OlderThanWindow(now, lt.events[i].datetime)
    /\ \A i \in DOMAIN lt.facts : ~OlderThanWindow(now, lt.facts[i].timestamp)
    /\ \A i \in DOMAIN lt.conversations :
        ~OlderThanWindow(now, lt.conversations[i].timestamp)

\* C9: when a handle_action call has run clean_memory, no completed reminder
\* (by completed_at), event (by its time), fact or conversation (by timestamp)
\* older than 365 days is left, and every reminder that was active before the
\* call is still in the store.
C9_SweepRetention ==
    [][(IsCallStep /\ [e |-> "sweep"] \in Range(call'.effects))
        => /\ NothingStale(memory'.long_term, call'.now)
           /\ \A i \in DOMAIN memory.long_term.reminders :
                IsActive(memory.long_term.reminders[i])
                    => memory.long_term.reminders[i]
                        \in Range(memory'.long_term.reminders)]_vars

\* a sweep has just evicted every earlier conversation and a completed
\* reminder, and kept an active reminder that is more than 365 days past due
C9_Witness ==
    /\ call.op = "handle_action"
    /\ [e |-> "sweep"] \in Range(call.effects)
    /\ used.calls = 3
    /\ Len(memory.long_term.conversations) = 1
    /\ \E i \in DOMAIN memory.long_term.reminders :
        /\ IsActive(memory.long_term.reminders[i])
        /\ OlderThanWindow(call.now, memory.long_term.reminders[i].datetime)

-----------------------------------------------------------------------------
(* C10: the scheduler over reminders due before, at and after the tick *)

SchedIntents ==
    {[action |-> "set_reminder", message |-> "ok", data |-> d] : d \in
        {[message |-> msg_call_mom, suggested_time |-> 120, type |-> "reminder"],
         [message |-> msg_Call_Mom, suggested_time |-> -60, type |-> "reminder"]}}

NextSched ==
    \/ \E a \in SchedIntents, t \in Texts : HandleAction(a, t)
    \/ CheckReminders
    \/ \E t \in Instants : AdvanceClock(t)

SpecSched == Init /\ [][NextSched]_vars

\* the tick just made emitted a notification for reminder `id`
NotifiedInTick(id) ==
    \E k \in DOMAIN call'.effects :
        /\ call'.effects[k].e \in {"speak", "notify"}
        /\ (IF call'.effects[k].e = "speak"
            THEN call'.effects[k].text.id ELSE call'.effects[k].message.id) = id

\* reminder `r` of the state before the tick is, after it, completed with
\* completed_at the tick's time, and the tick emitted nothing for it
ClosedSilently(r) ==
    /\ \E j \in DOMAIN memory'.long_term.reminders :
        memory'.long_term.reminders[j] = Completed(r, call'.now.sec)
    /\ ~NotifiedInTick(r.id)

\* C10 as claimed: a tick transitions every active reminder whose due time is
\* less than or equal to the tick's clock value, due time = now included, to
\* completed with completed_at the tick's time, and emits nothing for it.
C10_DueOrPastClosed ==
    [][IsTickStep =>
        \A i \in DOMAIN memory.long_term.reminders :
            LET r == memory.long_term.reminders[i]
            IN  (IsActive(r) /\ ~Before(call'.now, strptime(r.datetime)))
                    => ClosedSilently(r)]_vars

\* C10 amended: a tick transitions exactly the active reminders whose due time
\* is strictly earlier than the tick's clock value, each to completed with
\* completed_at the tick's time (to the second) and without a notification;
\* an active reminder due at exactly the tick's clock value stays active.
C10_PastClosed ==
    [][IsTickStep =>
        \A i \in DOMAIN memory.long_term.reminders :
            LET r == memory.long_term.reminders[i]
            IN  IsActive(r) =>
                    IF Before(strptime(r.datetime), call'.now)
                    THEN ClosedSilently(r)
                    ELSE r \in Range(memory'.long_term.reminders)]_vars

\* a tick at the very instant one reminder is due has closed an older one and
\* left that one active
C10_Witness ==
    /\ call.op = "check_reminders"
    /\ \E i, j \in DOMAIN memory.long_term.reminders :
        /\ IsActive(memory.long_term.reminders[i])
        /\ strptime(memory.long_term.reminders[i].datetime) = call.now
        /\ memory.long_term.reminders[j].status = "completed"
        /\ memory.long_term.reminders[j].completed_at = call.now.sec
        /\ memory.long_term.reminders[j].datetime < call.now.sec

-----------------------------------------------------------------------------
(* check_reminders statement by statement: the thread started at app.py   *)
(* 1148 shares `memory` with the foreground and takes no lock, so a       *)
(* handle_action call can run between any two of its statements           *)

\* reminder["status"] = "completed"
SetStatus(r) == [r EXCEPT !.status = "completed"]

\* reminder["completed_at"] = t
SetCompletedAt(r, t) ==
    [id |-> r.id, message |-> r.message, datetime |-> r.datetime,
     created_at |-> r.created_at, status |-> r.status, completed_at |-> t]

\* an assignment to a key of the reminder object `obj`, seen through the lists
\* of `memory` that hold the object; `new` is the object after the assignment
Assigned(mem, new) ==
    LET In(list) == [i \in DOMAIN list |->
                        IF list[i].id = new.id THEN new ELSE list[i]]
    IN  [mem EXCEPT !.long_term.reminders = In(@),
                    !.contextual.active_reminders = In(@)]

\* now = datetime.datetime.now(); the iterator over the [:] copy is created
SchedBegin ==
    /\ sched.pc = "sleep"
    /\ last_tick # clock
    /\ sched' = [pc |-> "examine", now |-> clock,
                 items |-> memory.long_term.reminders, upcoming |-> <<>>]
    /\ last_tick' = clock
    /\ UNCHANGED <<memory, pending_action, disk, clock, next_id, call, used>>
    /\ UNCHANGED listener

\* one pass through the loop body up to, not including, an assignment
SchedExamine ==
    /\ sched.pc = "examine"
    /\ sched.items # <<>>
    /\ LET reminder == Head(sched.items)
       IN  sched' =
             IF ~IsActive(reminder) THEN [sched EXCEPT !.items = Tail(@)]
             ELSE IF Passed(reminder, sched.now)
                  THEN [sched EXCEPT !.pc = "set_status"]
             ELSE IF DueSoon(reminder, sched.now)
                  THEN [sched EXCEPT !.items = Tail(@),
                                     !.upcoming = Append(@, reminder)]
             ELSE [sched EXCEPT !.items = Tail(@)]
    /\ UNCHANGED <<memory, pending_action, disk, clock, next_id, call,
                   last_tick, used>>
    /\ UNCHANGED listener

\* reminder["status"] = "completed"
SchedSetStatus ==
    /\ sched.pc = "set_status"
    /\ memory' = Assigned(memory, SetStatus(Head(sched.items)))
    /\ sched' = [sched EXCEPT !.pc = "set_completed_at",
                              !.items[1] = SetStatus(@)]
    /\ UNCHANGED <<pending_action, disk, clock, next_id, call, last_tick, used>>
    /\ UNCHANGED listener

\* reminder["completed_at"] = now.strftime(...); continue
SchedSetCompletedAt ==
    /\ sched.pc = "set_completed_at"
    /\ memory' = Assigned(memory,
                    SetCompletedAt(Head(sched.items), strftime(sched.now)))
    /\ sched' = [sched EXCEPT !.pc = "examine", !.items = Tail(@)]
    /\ UNCHANGED <<pending_action, disk, clock, next_id, call, last_tick, used>>
    /\ UNCHANGED listener

\* the loop is exhausted: notify about upcoming reminders, then sleep
SchedNotify ==
    /\ sched.pc = "examine"
    /\ sched.items = <<>>
    /\ Commit(Return(NotifyUpcoming(World(memory, pending_action, disk, next_id),
                                    sched.upcoming),
                     "check_reminders"),
              [op |-> "check_reminders", now |-> sched.now,
               path |-> "", effects |-> <<>>])
    /\ sched' = Asleep
    /\ used' = [used EXCEPT !.notices = Tally(@, call'.effects)]
    /\ UNCHANGED <<clock, last_tick>>
    /\ UNCHANGED listener

\* the foreground: a reminder two minutes ahead, and a query (whose handling
\* ends with clean_memory)
ConcIntents ==
    {[action |-> "set_reminder", message |-> "ok",
      data |-> [message |-> msg_call_mom, suggested_time |-> 120,
                type |-> "reminder"]],
     [action |-> "general_query", message |-> "ok", response |-> txt_answer],
     [action |-> "clear_reminders", message |-> "ok"]}

NextConc ==
    \/ \E a \in ConcIntents : HandleAction(a, txt_no_thanks)
    \/ SchedBegin
    \/ SchedExamine
    \/ SchedSetStatus
    \/ SchedSetCompletedAt
    \/ SchedNotify
    \/ \E t \in Instants : AdvanceClock(t)

SpecConc == Init /\ [][NextConc]_vars

\* completed_at is present in `r` if and only if its status is completed
StampConsistent(r) == ("completed_at" \in DOMAIN r) <=> (r.status = "completed")

\* C8: at every interleaving of handle_action calls (clear_reminders among
\* them) with the statements of a check_reminders tick, a reminder's status
\* only ever changes from active to completed, and every reminder of the
\* long-term store has completed_at if and only if its status is completed.
C8_StatusMonotone ==
    [][/\ \A j \in DOMAIN memory'.long_term.reminders :
            StampConsistent(memory'.long_term.reminders[j])
       /\ \A i \in DOMAIN memory.long_term.reminders,
             j \in DOMAIN memory'.long_term.reminders :
            LET r == memory.long_term.reminders[i]
                q == memory'.long_term.reminders[j]
            IN  (r.id = q.id /\ r.status # q.status)
                    => (r.status = "active" /\ q.status = "completed")]_vars

-----------------------------------------------------------------------------
(* C11: the scheduler at its 30 s cadence over a reminder five minutes     *)
(* ahead; the foreground calls fall within the first minute                *)

\* the last second at which the scheduler is still put to sleep
MaxTime == 330

NotifyIntents ==
    {[action |-> "set_reminder", message |-> "ok",
      data |-> [message |-> msg_call_mom, suggested_time |-> DueSoonWindow,
                type |-> "reminder"]],
     [action |-> "clear_reminders", message |-> "ok"]}

\* The thread sleeps two periods between iterations.
SleepTwoPeriods ==
    /\ last_tick = clock
    /\ clock.sec < MaxTime
    /\ \E u \in {0, 1} :
        /\ u >= clock.usec
        /\ clock' = [sec |-> clock.sec + 2 * TickPeriod, usec |-> u]
    /\ UNCHANGED <<memory, pending_action, disk, next_id, call, last_tick, used,
                   sched>>
    /\ UNCHANGED listener

\* time.sleep(30): the next iteration reads the clock 30 s, or a little more,
\* after this one did
Sleep ==
    /\ last_tick = clock
    /\ clock.sec < MaxTime
    /\ \E u \in {0, 1} :
        /\ u >= clock.usec
        /\ clock' = [sec |-> clock.sec + TickPeriod, usec |-> u]
    /\ UNCHANGED <<memory, pending_action, disk, next_id, call, last_tick, used,
                   sched>>
    /\ UNCHANGED listener

NextNotify ==
    \/ \E a \in NotifyIntents :
        clock.sec <= 2 * TickPeriod /\ HandleAction(a, txt_no_thanks)
    \/ CheckReminders
    \/ Sleep

SpecNotify == Init /\ [][NextNotify]_vars

\* how many entries of kind `e` the tick just made emitted for reminder `id`
EmittedInTick(e, id) ==
    Cardinality({k \in DOMAIN call'.effects :
        /\ call'.effects[k].e = e
        /\ (IF e = "speak" THEN call'.effects[k].text.id
            ELSE call'.effects[k].message.id) = id})

\* C11: a tick speaks and notifies once for each active reminder that is due
\* more than 0 and at most 300 seconds after the tick's clock value, on every
\* tick at which that is so, and for no other reminder; with ticks 30 s apart
\* no reminder is announced more than 10 times.
C11_DueSoonNotified ==
    [][IsTickStep =>
        /\ \A i \in DOMAIN memory.long_term.reminders :
            LET r == memory.long_term.reminders[i]
                d == r.datetime - call'.now.sec
                n == IF IsActive(r) /\ 1 <= d /\ d <= 300 THEN 1 ELSE 0
            IN  EmittedInTick("speak", r.id) = n /\ EmittedInTick("notify", r.id) = n
        /\ \A id \in DOMAIN used'.notices : used'.notices[id] <= 10]_vars

\* a reminder has been announced by ten ticks
C11_Witness ==
    /\ call.op = "check_reminders"
    /\ \E id \in DOMAIN used.notices : used.notices[id] = 10

-----------------------------------------------------------------------------
(* C12: a reminder from its creation to its completion by the scheduler,  *)
(* with time passing and the scheduler thread running again and again     *)

LifeIntents ==
    {[action |-> "set_reminder", message |-> "ok",
      data |-> [message |-> msg_call_mom, suggested_time |-> 120,
                type |-> "reminder"]],
     [action |-> "set_reminder", message |-> "ok",
      data |-> [message |-> fact_mom, suggested_time |-> 120,
                type |-> "reminder"]],
     [action |-> "clear_all_memory", message |-> "ok"]}

NextLife ==
    \/ \E a \in LifeIntents : HandleAction(a, txt_no_thanks)
    \/ CheckReminders
    \/ \E t \in Instants : AdvanceClock(t)

\* the daemon thread keeps iterating, and time does not stand still
SpecLife ==
    /\ Init
    /\ [][NextLife]_vars
    /\ WF_vars(CheckReminders)
    /\ WF_vars(\E t \in Instants : AdvanceClock(t))

\* the reminder object `id` is in the store with status `status`
Stored(mem, id, status) ==
    \E i \in DOMAIN mem.long_term.reminders :
        /\ mem.long_term.reminders[i].id = id
        /\ mem.long_term.reminders[i].status = status

\* the reminder object `id` is not in the store
Absent(mem, id) ==
    \A i \in DOMAIN mem.long_term.reminders : mem.long_term.reminders[i].id # id

\* the call just made received, in Idle, a set_reminder intent of type
\* "reminder" with a future suggested_time, no flag and no duplicate stored
PlainFutureReminder ==
    /\ IsCallStep
    /\ pending_action = None
    /\ call'.action_data.action = "set_reminder"
    /\ call'.action_data.data.type = "reminder"
    /\ "needs_confirmation" \notin DOMAIN call'.action_data.data
    /\ call'.action_data.data.suggested_time > call'.now.sec
    /\ \A i \in DOMAIN memory.long_term.reminders :
        ~ /\ Lower(memory.long_term.reminders[i].message)
                = Lower(call'.action_data.data.message)
          /\ memory.long_term.reminders[i].datetime
                = call'.action_data.data.suggested_time

\* C12: a set_reminder intent of type "reminder" with a future suggested_time,
\* no confirmation flag and no duplicate creates exactly one active reminder
\* due at that suggested_time and leaves the dispatcher Idle; a tick completes
\* a reminder only at a clock value at or after its due time; and, the
\* scheduler being scheduled fairly, every active reminder is eventually
\* completed unless it is cleared from the store.
C12_ReminderLifecycle ==
    /\ [][PlainFutureReminder =>
            /\ pending_action' = None
            /\ Cardinality({j \in DOMAIN memory'.long_term.reminders :
                    Absent(memory, memory'.long_term.reminders[j].id)}) = 1
            /\ \A j \in DOMAIN memory'.long_term.reminders :
                LET q == memory'.long_term.reminders[j]
                IN  Absent(memory, q.id) =>
                        /\ q.status = "active"
                        /\ q.datetime = call'.action_data.data.suggested_time
                        /\ q.message = call'.action_data.data.message]_vars
    /\ [][IsTickStep =>
            \A i \in DOMAIN memory.long_term.reminders :
                LET r == memory.long_term.reminders[i]
                IN  (IsActive(r) /\ Stored(memory', r.id, "completed"))
                        => call'.now.sec >= r.datetime]_vars
    /\ \A id \in 1..MaxCalls :
        Stored(memory, id, "active")
            ~> (Stored(memory, id, "completed") \/ Absent(memory, id))

\* a reminder created by such an intent has been completed by a tick
C12_Witness ==
    /\ call.op = "check_reminders"
    /\ pending_action = None
    /\ \E i \in DOMAIN memory.long_term.reminders :
        /\ memory.long_term.reminders[i].status = "completed"
        /\ memory.long_term.reminders[i].datetime = 120
        /\ memory.long_term.reminders[i].created_at = 0
        /\ memory.long_term.reminders[i].completed_at = call.now.sec
        /\ call.now.sec >= 120

-----------------------------------------------------------------------------
(* Start-up over an existing memory file: main() calls load_memory() before *)
(* it starts the scheduler thread and the keyboard listener.  The           *)
(* preferences dict is the set of its (key, value) pairs.                   *)

pref_drink == {<<"drink", "tea">>}

\* a fact as an earlier session saved it
StoredFact == [content |-> fact_tea, category |-> "preference", timestamp |-> 0]

\* memory files an earlier session can have left: the current format (the
\* whole `memory`) and the legacy format (the collections at top level)
StoredDocuments ==
    {[EmptyMemory EXCEPT !.long_term.preferences = pref_drink,
                         !.long_term.facts = <<StoredFact>>],
     [reminders |-> <<>>, facts |-> <<StoredFact>>, preferences |-> pref_drink]}

\* loaded_memory.get(key, default)
Get(d, key, default) == IF key \in DOMAIN d THEN d[key] ELSE default

\* load_memory() on the document `loaded_memory`
load_memory(mem, loaded_memory) ==
    IF {"reminders", "facts"} \subseteq DOMAIN loaded_memory
    THEN [mem EXCEPT !.long_term =
            [reminders |-> Get(loaded_memory, "reminders", <<>>),
             facts |-> Get(loaded_memory, "facts", <<>>),
             events |-> Get(loaded_memory, "events", <<>>),
             preferences |-> Get(loaded_memory, "preferences", {}),
             conversations |-> Get(loaded_memory, "conversations", <<>>)]]
    ELSE loaded_memory

\* the globals when main() starts, with or without a memory file
InitStored ==
    /\ memory = EmptyMemory
    /\ pending_action = None
    /\ disk \in {NoFile} \cup StoredDocuments
    /\ clock = [sec |-> 0, usec |-> 0]
    /\ next_id = 1
    /\ call = [op |-> "main"]
    /\ last_tick = None
    /\ used = [calls |-> 0, notices |-> <<>>]
    /\ sched = Asleep
    /\ is_listening = FALSE
    /\ sessions = <<>>

\* main(): load_memory()
LoadMemory ==
    /\ call.op = "main"
    /\ memory' = IF disk = NoFile THEN memory ELSE load_memory(memory, disk)
    /\ call' = [op |-> "load_memory"]
    /\ UNCHANGED <<pending_action, disk, clock, next_id, last_tick, used, sched>>
    /\ UNCHANGED listener

BootIntents ==
    {[action |-> "clear_all_memory", message |-> "ok"],
     [action |-> "clear_all_memory", message |-> "ok", needs_confirmation |-> TRUE],
     [action |-> "remember_fact", message |-> "ok", content |-> fact_mom,
      category |-> "family"],
     [action |-> "general_query", message |-> "ok", response |-> txt_answer]}

NextBoot ==
    \/ LoadMemory
    \/ \E a \in BootIntents, t \in Texts :
        call.op # "main" /\ HandleAction(a, t)
    \/ \E t \in Instants : call.op # "main" /\ AdvanceClock(t)

SpecBoot == InitStored /\ [][NextBoot]_vars

\* the call just made executed clear_all_memory
ClearedAll ==
    /\ IsCallStep
    /\ call'.path \in {"clear_all_memory_direct", "confirm_clear_all_memory"}

\* C13: a call that executes clear_all_memory empties facts, events, reminders
\* and conversations and leaves the preferences mapping as it was.
C13_PreferencesKept ==
    [][ClearedAll =>
        /\ Emptied(memory'.long_term)
        /\ memory'.long_term.preferences = memory.long_term.preferences]_vars

-----------------------------------------------------------------------------
(* on_press and listen_and_process, statement by statement: every F12      *)
(* press that finds is_listening false starts a new thread, and nothing    *)
(* makes the test at app.py:376 and the assignment at app.py:379 one step  *)

\* listen_and_process threads started in one behaviour
MaxSessions == 3

\* the exits of handle_action that pass `is_listening = True`
\* (app.py:755, 780, 964, 969)
SetsListening(path) ==
    path \in {"confirm_clear_reminders", "confirm_clear_all_memory",
              "confirm_set_reminder", "confirm_set_reminder_keyerror",
              "confirm_other", "read_back_reminders", "set_reminder_keyerror",
              "tail_set_reminder", "tail_remember_fact", "tail_query",
              "tail_unknown"}

\* the except clauses of listen_and_process
CaptureFailures == {"WaitTimeoutError", "UnknownValueError", "RequestError",
                    "Exception"}

\* on_press(keyboard.Key.f12)
PressF12 ==
    /\ Len(sessions) < MaxSessions
    /\ sessions' = IF is_listening THEN sessions ELSE Append(sessions, "test")
    /\ call' = [op |-> "on_press", started |-> ~is_listening]
    /\ UNCHANGED <<memory, pending_action, disk, clock, next_id, last_tick,
                   used, sched, is_listening>>

\* if is_listening: return
ListenTest(t) ==
    /\ sessions[t] = "test"
    /\ sessions' = [sessions EXCEPT ![t] = IF is_listening THEN "returned" ELSE "set"]
    /\ UNCHANGED <<memory, pending_action, disk, clock, next_id, call,
                   last_tick, used, sched, is_listening>>

\* is_listening = True
ListenSet(t) ==
    /\ sessions[t] = "set"
    /\ is_listening' = TRUE
    /\ sessions' = [sessions EXCEPT ![t] = "open"]
    /\ UNCHANGED <<memory, pending_action, disk, clock, next_id, call,
                   last_tick, used, sched>>

\* with sr.Microphone() as source: entered, or raising before the try
ListenOpen(t) ==
    /\ sessions[t] = "open"
    /\ \E opened \in BOOLEAN :
        sessions' = [sessions EXCEPT ![t] = IF opened THEN "capture" ELSE "raised"]
    /\ UNCHANGED <<memory, pending_action, disk, clock, next_id, call,
                   last_tick, used, sched, is_listening>>

\* the try block up to process_with_llm(text) -> handle_action(result, text)
ListenDispatch(t, action_data, original_text) ==
    /\ sessions[t] = "capture"
    /\ used.calls < MaxCalls
    /\ Commit(handle_action(World(memory, pending_action, disk, next_id),
                            action_data, original_text, clock),
              [op |-> "handle_action", action_data |-> action_data,
               original_text |-> original_text, now |-> clock,
               path |-> "", effects |-> <<>>])
    /\ used' = [used EXCEPT !.calls = @ + 1]
    /\ sched' = [sched EXCEPT !.items = SeenThrough(@, memory')]
    /\ is_listening' = IF SetsListening(call'.path) THEN TRUE ELSE is_listening
    /\ sessions' = [sessions EXCEPT ![t] = "finally"]
    /\ UNCHANGED <<clock, last_tick>>

\* the try block left through one of the except clauses
ListenFail(t, exception) ==
    /\ sessions[t] = "capture"
    /\ sessions' = [sessions EXCEPT ![t] = "finally"]
    /\ call' = [op |-> "listen_and_process", exception |-> exception]
    /\ UNCHANGED <<memory, pending_action, disk, clock, next_id, last_tick,
                   used, sched, is_listening>>

\* finally: is_listening = False
ListenFinally(t) ==
    /\ sessions[t] = "finally"
    /\ is_listening' = FALSE
    /\ sessions' = [sessions EXCEPT ![t] = "ended"]
    /\ UNCHANGED <<memory, pending_action, disk, clock, next_id, call,
                   last_tick, used, sched>>

ListenIntents ==
    {[action |-> "general_query", message |-> "ok", response |-> txt_answer],
     [action |-> "clear_all_memory", message |-> "ok"]}

NextListen ==
    \/ PressF12
    \/ \E t \in DOMAIN sessions : ListenTest(t)
    \/ \E t \in DOMAIN sessions : ListenSet(t)
    \/ \E t \in DOMAIN sessions : ListenOpen(t)
    \/ \E t \in DOMAIN sessions, a \in ListenIntents :
        ListenDispatch(t, a, txt_no_thanks)
    \/ \E t \in DOMAIN sessions, x \in CaptureFailures : ListenFail(t, x)
    \/ \E t \in DOMAIN sessions : ListenFinally(t)

SpecListen == Init /\ [][NextListen]_vars

\* session `t` is past the test of is_listening and has not ended
InFlight(t) == sessions[t] \in {"set", "open", "capture", "finally"}

\* C14: at any interleaving of F12 presses and listen_and_process threads at
\* most one session is past the in-flight test at a time.
C14_OneSession ==
    Cardinality({t \in DOMAIN sessions : InFlight(t)}) <= 1

\* C15: once every session that set the flag has ended, by whichever exit
\* (dispatch, timeout, unintelligible audio, transport error, other exception,
\* failure to open the microphone), is_listening is false.
C15_FlagReleased ==
    (\A t \in DOMAIN sessions : ~InFlight(t) /\ sessions[t] # "test")
        => ~is_listening

-----------------------------------------------------------------------------
(* C16, C17, C18: exclusive access, durability and the order of the steps *)

\* C16: no handle_action execution (its clean_memory sweep included) changes
\* the reminders collection while a check_reminders tick is between its read
\* of a reminder and the end of its write to it, and likewise for the other
\* mutation paths: each has the collection to itself for its whole operation.
C16_ExclusiveAccess ==
    [][(IsCallStep /\ memory'.long_term.reminders # memory.long_term.reminders)
        => sched.pc \notin {"set_status", "set_completed_at"}]_vars

\* C17: every handle_action call and every check_reminders tick that changes
\* long-term memory has flushed it when it returns: the persisted document's
\* long-term part equals the in-memory long-term state.
C17_FlushedOnReturn ==
    [][((IsCallStep \/ IsTickStep) /\ memory'.long_term # memory.long_term)
        => (disk' # NoFile /\ disk'.long_term = memory'.long_term)]_vars

\* the exits of handle_action on which an action has been executed
ExecutedPaths ==
    ConfirmPaths \cup
    {"read_back_reminders", "clear_reminders_direct", "clear_all_memory_direct",
     "tail_set_reminder", "tail_remember_fact", "tail_query"}

\* the positions in the call's record of what it did that hold a step `e`
StepsOf(effects, e) == {k \in DOMAIN effects : effects[k].e = e}

\* C18: in every call that executes an action, the mutation, the durability
\* flush, the contextual refresh and the retention sweep all occur, in this
\* order, and the response is spoken and notified only after the sweep.
C18_StepsInOrder ==
    [][(IsCallStep /\ call'.path \in ExecutedPaths) =>
        \E m \in StepsOf(call'.effects, "mutate"),
           f \in StepsOf(call'.effects, "save"),
           r \in StepsOf(call'.effects, "refresh"),
           s \in StepsOf(call'.effects, "sweep") :
            /\ m < f /\ f < r /\ r < s
            /\ \A k \in StepsOf(call'.effects, "speak")
                    \cup StepsOf(call'.effects, "notify") : s < k]_vars

-----------------------------------------------------------------------------
(* process_with_llm: the parsed reply of the language model is checked and *)
(* handed to handle_action                                                 *)

\* json.loads gave something that is not a dict (here a JSON array)
json_array == [isdict |-> FALSE]

\* json.loads gave the dict `d`
Dict(d) == [isdict |-> TRUE, value |-> d]

\* `if not isinstance(result, dict) or "action" not in result: return`
process_with_llm(w, result, text, now) ==
    IF ~result.isdict \/ "action" \notin DOMAIN result.value
    THEN Return(w, "invalid_response_format")
    ELSE handle_action(w, result.value, text, now)

\* replies that are not a JSON object, lack `action`, or lack a field their
\* action requires
MalformedResults ==
    {json_array,
     Dict([message |-> "ok"]),
     Dict([action |-> "set_reminder", message |-> "ok"]),
     Dict([action |-> "set_reminder", message |-> "ok",
           data |-> [message |-> msg_call_mom, type |-> "reminder"]]),
     Dict([action |-> "remember_fact", message |-> "ok", category |-> "preference"]),
     Dict([action |-> "query_memory", message |-> "ok"]),
     Dict([action |-> "general_query", message |-> "ok"])}

\* well-formed replies: a reminder that asks for confirmation, and a fact
WellFormedResults ==
    {Dict([action |-> "set_reminder", message |-> "ok",
           data |-> [message |-> msg_call_mom, suggested_time |-> 120,
                     type |-> "reminder", needs_confirmation |-> TRUE]]),
     Dict([action |-> "remember_fact", message |-> "ok", content |-> fact_tea,
           category |-> "preference"])}

\* a listen_and_process session, from the flag test to the `finally`, whose
\* utterance reaches process_with_llm and draws the reply `result`
ProcessWithLLM(result, text) ==
    /\ used.calls < MaxCalls
    /\ Commit(process_with_llm(World(memory, pending_action, disk, next_id),
                               result, text, clock),
              [op |-> "process_with_llm", result |-> result,
               original_text |-> text, now |-> clock,
               path |-> "", effects |-> <<>>])
    /\ used' = [used EXCEPT !.calls = @ + 1]
    /\ sched' = [sched EXCEPT !.items = SeenThrough(@, memory')]
    /\ is_listening' = FALSE
    /\ UNCHANGED <<clock, last_tick, sessions>>

NextReply ==
    \E r \in MalformedResults \cup WellFormedResults, t \in Texts :
        ProcessWithLLM(r, t)

SpecReply == Init /\ [][NextReply]_vars

\* C19: a malformed reply (not a JSON object, no `action`, or a set_reminder,
\* remember_fact, query_memory or general_query intent without a required
\* field) changes no long-term collection, conversations included, creates no
\* PendingAction and produces no spoken or notified response.
C19_MalformedIgnored ==
    [][(IsCallStep /\ call'.result \in MalformedResults) =>
        /\ memory'.long_term = memory.long_term
        /\ pending_action' = pending_action
        /\ StepsOf(call'.effects, "speak") = {}
        /\ StepsOf(call'.effects, "notify") = {}]_vars

-----------------------------------------------------------------------------
(* C20: reading the reminders back, with reminders stored out of due order *)
(* and some of them completed by the scheduler                             *)

ReadBackIntents ==
    {[action |-> "set_reminder", message |-> "ok", data |-> d] : d \in
        {[message |-> msg_call_mom, suggested_time |-> 120, type |-> "reminder"],
         [message |-> fact_mom, suggested_time |-> 60, type |-> "reminder"],
         [message |-> fact_mom, suggested_time |-> 120, type |-> "event"]}}
    \cup {[action |-> "read_back_reminders", message |-> "ok"]}

NextReadBack ==
    \/ \E a \in ReadBackIntents : HandleAction(a, txt_no_thanks)
    \/ CheckReminders
    \/ \E t \in Instants : AdvanceClock(t)

SpecReadBack == Init /\ [][NextReadBack]_vars

\* what the call just made spoke (its one spoken response)
Spoken == call'.effects[CHOOSE k \in DOMAIN call'.effects : call'.effects[k].e = "speak"].text

\* `listing` holds the message and due time of each reminder of `reminders`,
\* each once
ListsExactly(listing, reminders) ==
    /\ Len(listing) = Len(reminders)
    /\ \E p \in [DOMAIN listing -> DOMAIN reminders] :
        /\ \A j, k \in DOMAIN listing : j # k => p[j] # p[k]
        /\ \A k \in DOMAIN listing :
            listing[k] = [message |-> reminders[p[k]].message,
                          datetime |-> reminders[p[k]].datetime]

-----------------------------------------------------------------------------
(* C21: queries, with `response` inside `data` as the prompts prescribe   *)
(* (app.py:126-142, 476-492) and at the top level of the intent           *)

QueryFormIntents ==
    {[action |-> a, message |-> "ok", data |-> [response |-> txt_answer]] :
        a \in {"query_memory", "general_query"}}
    \cup {[action |-> a, message |-> "ok", response |-> txt_answer] :
        a \in {"query_memory", "general_query"}}
    \cup {[action |-> "remember_fact", message |-> "ok", content |-> fact_tea,
           category |-> "preference"]}

NextQuery ==
    \/ \E a \in QueryFormIntents : HandleAction(a, txt_no_thanks)
    \/ \E t \in Instants : AdvanceClock(t)

SpecQuery == Init /\ [][NextQuery]_vars

\* the intent is a query whose payload `data` carries a response text
IsWireQuery(a) ==
    /\ a.action \in {"query_memory", "general_query"}
    /\ "data" \in DOMAIN a
    /\ "response" \in DOMAIN a.data

\* C21: a query_memory or general_query intent whose payload `data` carries a
\* response text is answered with exactly that text, nothing prepended,
\* appended or substituted, and changes no long-term collection other than
\* conversations.
C21_ResponsePassedThrough ==
    [][(IsCallStep /\ IsWireQuery(call'.action_data))
        => /\ StepsOf(call'.effects, "speak") # {}
           /\ Spoken = [kind |-> "text", text |-> call'.action_data.data.response]
           /\ memory'.long_term.reminders = memory.long_term.reminders
           /\ memory'.long_term.events = memory.long_term.events
           /\ memory'.long_term.facts = memory.long_term.facts
           /\ memory'.long_term.preferences = memory.long_term.preferences]_vars

-----------------------------------------------------------------------------
(* display_weekly_calendar (F10), app.py:1013-1077                         *)

DaysPerWeek == 7

\* now.weekday(): 0 for Monday; second 0 of the model's clock is a Monday,
\* 00:00:00
weekday(t) == (t.sec \div SecondsPerDay) % DaysPerWeek

\* start_of_week = now - timedelta(days=now.weekday()): the time of day and
\* the microseconds of `now` are kept
start_of_week(now) == [now EXCEPT !.sec = @ - weekday(now) * SecondsPerDay]

\* end_of_week = start_of_week + timedelta(days=6, hours=23, minutes=59)
end_of_week(now) ==
    [start_of_week(now) EXCEPT !.sec = @ + 6 * SecondsPerDay + 23 * 3600 + 59 * 60]

\* start_of_week <= t <= end_of_week
InDisplayedWeek(t, now) ==
    /\ ~Before(t, start_of_week(now))
    /\ ~Before(end_of_week(now), t)

\* weekly_items.sort(key=lambda x: x["time"]): stable
SortByTime(items) ==
    LET order == SortSeq([i \in DOMAIN items |-> i],
                         LAMBDA a, b :
                            \/ Before(items[a].time, items[b].time)
                            \/ (items[a].time = items[b].time /\ a < b))
    IN  [k \in DOMAIN items |-> items[order[k]]]

\* the events and the active reminders of the displayed week, events first
WeeklyItems(mem, now) ==
    LET events == SelectSeq(mem.long_term.events,
                    LAMBDA e : InDisplayedWeek(strptime(e.datetime), now))
        reminders == SelectSeq(mem.long_term.reminders,
                    LAMBDA r : IsActive(r)
                               /\ InDisplayedWeek(strptime(r.datetime), now))
    IN  [i \in DOMAIN events |->
            [time |-> strptime(events[i].datetime),
             text |-> [kind |-> "event", description |-> events[i].description],
             type |-> "event"]]
        \o [i \in DOMAIN reminders |->
            [time |-> strptime(reminders[i].datetime),
             text |-> [kind |-> "reminder", message |-> reminders[i].message],
             type |-> "reminder"]]

\* r.get("status") == "completed"
IsCompleted(r) == "status" \in DOMAIN r /\ r.status = "completed"

\* the second listing: completed reminders by completed_at, in stored order;
\* a completed reminder without completed_at raises KeyError
CompletedThisWeek(mem, now) ==
    IF \E i \in DOMAIN mem.long_term.reminders :
            /\ IsCompleted(mem.long_term.reminders[i])
            /\ "completed_at" \notin DOMAIN mem.long_term.reminders[i]
    THEN [raised |-> TRUE]
    ELSE [raised |-> FALSE,
          items |-> SelectSeq(mem.long_term.reminders,
                        LAMBDA r : IsCompleted(r)
                            /\ InDisplayedWeek(strptime(r.completed_at), now))]

\* what the function prints: the sorted listing, then the completed listing
display_weekly_calendar(mem, now) ==
    [op |-> "display_weekly_calendar", now |-> now,
     weekly_items |-> SortByTime(WeeklyItems(mem, now)),
     completed_reminders |-> CompletedThisWeek(mem, now)]

\* on_press(F10)
DisplayWeeklyCalendar ==
    /\ call' = display_weekly_calendar(memory, clock)
    /\ UNCHANGED <<memory, pending_action, disk, clock, next_id, last_tick,
                   used, sched>>
    /\ UNCHANGED listener

\* Monday 00:30:00, Wednesday 12:00:00 and 13:00:00, Thursday 12:00:00 of the
\* week that starts at second 0
MondayEarly == 30 * 60
WednesdayNoon == 2 * SecondsPerDay + 12 * 3600
WednesdayOne == WednesdayNoon + 3600
ThursdayNoon == 3 * SecondsPerDay + 12 * 3600

CalendarIntents ==
    {[action |-> "set_reminder", message |-> "ok",
      data |-> [message |-> msg_call_mom, suggested_time |-> t, type |-> ty]] :
        t \in {MondayEarly, WednesdayOne}, ty \in {"reminder", "event"}}

CalendarInstants ==
    {[sec |-> s, usec |-> 0] : s \in {WednesdayNoon, ThursdayNoon}}

NextCalendar ==
    \/ \E a \in CalendarIntents : HandleAction(a, txt_no_thanks)
    \/ CheckReminders
    \/ DisplayWeeklyCalendar
    \/ \E t \in CalendarInstants : AdvanceClock(t)

SpecCalendar == Init /\ [][NextCalendar]_vars

\* Monday 00:00:00 of the week containing now
MondayMidnight(now) ==
    (now.sec \div (DaysPerWeek * SecondsPerDay)) * (DaysPerWeek * SecondsPerDay)

\* the time string s lies between Monday 00:00:00 and Sunday 23:59:59 of the
\* week containing now
InCalendarWeek(s, now) ==
    /\ MondayMidnight(now) <= s
    /\ s < MondayMidnight(now) + DaysPerWeek * SecondsPerDay

\* the listing has an item at time s
ListedAt(listing, s) == \E i \in DOMAIN listing : listing[i].time = strptime(s)

\* a step of display_weekly_calendar
IsDisplayStep == call'.op = "display_weekly_calendar" /\ clock' = clock

\* C22: the weekly calendar lists every event and reminder whose time lies in
\* the calendar week (Monday 00:00:00 to Sunday 23:59:59) containing now and
\* every completed reminder whose completed_at lies in it, all in one listing
\* sorted by time ascending, and changes no state.
C22_WeeklyProjection ==
    [][IsDisplayStep =>
        LET listing == call'.weekly_items
            now == call'.now
        IN  /\ \A i \in DOMAIN memory.long_term.events :
                    InCalendarWeek(memory.long_term.events[i].datetime, now)
                    => ListedAt(listing, memory.long_term.events[i].datetime)
            /\ \A i \in DOMAIN memory.long_term.reminders :
                LET r == memory.long_term.reminders[i]
                IN  /\ InCalendarWeek(r.datetime, now)
                        => ListedAt(listing, r.datetime)
                    /\ (IsCompleted(r) /\ "completed_at" \in DOMAIN r
                        /\ InCalendarWeek(r.completed_at, now))
                        => ListedAt(listing, r.completed_at)
            /\ \A i, j \in DOMAIN listing :
                    i < j => ~Before(listing[j].time, listing[i].time)
            /\ UNCHANGED <<memory, pending_action, disk, next_id>>]_vars

-----------------------------------------------------------------------------
(* update_contextual_memory as a function of the store and the clock       *)

\* update_contextual_memory() applied to the current globals
UpdateContextualMemory ==
    /\ Commit(update_contextual_memory(
                  World(memory, pending_action, disk, next_id), clock),
              [op |-> "update_contextual_memory", now |-> clock,
               path |-> "", effects |-> <<>>])
    /\ UNCHANGED <<clock, last_tick, used, sched>>
    /\ UNCHANGED listener

ContextIntents ==
    {[action |-> "set_reminder", message |-> "ok",
      data |-> [message |-> msg_call_mom, suggested_time |-> 120, type |-> ty]] :
        ty \in {"reminder", "event"}}
    \cup {[action |-> "remember_fact", message |-> "ok", content |-> fact_mom,
           category |-> "preference"]}

\* the due time of the reminder and the event, and the instant after it
ContextInstants == {[sec |-> 120, usec |-> u] : u \in {0, 1}}

NextContext ==
    \/ \E a \in ContextIntents : HandleAction(a, msg_call_mom)
    \/ CheckReminders
    \/ UpdateContextualMemory
    \/ \E t \in ContextInstants : AdvanceClock(t)

SpecContext == Init /\ [][NextContext]_vars

\* a step of update_contextual_memory on its own
IsRefreshStep == call'.op = "update_contextual_memory" /\ clock' = clock

\* the four computed views of a contextual tier
Views(ctx) ==
    <<ctx.recent_conversations, ctx.upcoming_events, ctx.active_reminders,
      ctx.relevant_facts>>

\* C23: recomputing the contextual view a second time at the same clock value,
\* with no mutation of long-term memory in between, yields the same
\* recent_conversations, upcoming_events, active_reminders and relevant_facts
\* as computing it once, and the recomputation leaves long-term memory as it
\* was.
C23_RefreshIdempotent ==
    [][IsRefreshStep =>
        LET again == update_contextual_memory(
                        World(memory', pending_action', disk', next_id'),
                        call'.now).memory
        IN  /\ Views(again.contextual) = Views(memory'.contextual)
            /\ again.long_term = memory.long_term
            /\ memory'.long_term = memory.long_term]_vars

\* a recomputation has run on a store with a completed reminder, and the view
\* it left shows a conversation, an event and a fact
C23_Witness ==
    /\ call.op = "update_contextual_memory"
    /\ \E i \in DOMAIN memory.long_term.reminders :
            ~IsActive(memory.long_term.reminders[i])
    /\ memory.contextual.active_reminders = <<>>
    /\ memory.contextual.recent_conversations # <<>>
    /\ memory.contextual.upcoming_events # <<>>
    /\ memory.contextual.relevant_facts # <<>>

\* C24: after every completed handle_action call, clear_reminders,
\* clear_all_memory or check_reminders tick, the contextual active_reminders
\* view holds exactly the long-term reminders whose status is active: no
\* completed one and none that long-term memory no longer has.
C24_ActiveViewExact ==
    call.op \in {"handle_action", "check_reminders"}
        => memory.contextual.active_reminders = ActiveReminders(memory)

\* an event stored at the start and a query at any later time; the clock
\* jumps to an hour past the 7th and past the 8th day
WindowIntents ==
    {[action |-> "set_reminder", message |-> "ok",
      data |-> [message |-> msg_call_mom, suggested_time |-> 120,
                type |-> "event"]],
     [action |-> "general_query", message |-> "ok", response |-> txt_answer]}

WindowInstants ==
    {[sec |-> d * SecondsPerDay + 3600, usec |-> 0] :
        d \in {0, CONTEXT_WINDOW_DAYS, CONTEXT_WINDOW_DAYS + 1}}

NextWindow ==
    \/ \E a \in WindowIntents : HandleAction(a, msg_call_mom)
    \/ UpdateContextualMemory
    \/ \E t \in WindowInstants : AdvanceClock(t)

SpecWindow == Init /\ [][NextWindow]_vars

\* the operation that ended last recomputed the contextual view at call.now
JustRefreshed == call.op \in {"update_contextual_memory", "handle_action"}

\* the time string s is no more than n seconds before now
AtMostSecondsAgo(s, now, n) == ~Before([sec |-> s + n, usec |-> 0], now)

\* C25: after update_contextual_memory, recent_conversations holds at most 50
\* records, each with a timestamp no more than 7 x 86400 s before now, in
\* insertion order with the newest last, and the 50 newest when more qualify.
C25_RecentWindow ==
    JustRefreshed =>
        LET recent == memory.contextual.recent_conversations
            InWindow(conv) ==
                AtMostSecondsAgo(conv.timestamp, call.now,
                                 CONTEXT_WINDOW_DAYS * SecondsPerDay)
        IN  /\ Len(recent) <= MAX_CONTEXT_CONVERSATIONS
            /\ \A i \in DOMAIN recent : InWindow(recent[i])
            /\ recent = Suffix(SelectSeq(memory.long_term.conversations, InWindow),
                               MAX_CONTEXT_CONVERSATIONS)

\* the time string s is within 24 hours of now, before or after
Within24Hours(s, now) ==
    /\ SecondsAtMost(strptime(s), now, SecondsPerDay)
    /\ SecondsAtMost(now, strptime(s), SecondsPerDay)

\* C26: after update_contextual_memory, upcoming_events holds exactly the
\* long-term events whose time is within 24 hours of now; an event that
\* occurred more than 24 hours ago is not in it.
C26_UpcomingExact ==
    JustRefreshed =>
        memory.contextual.upcoming_events =
            SelectSeq(memory.long_term.events,
                      LAMBDA e : Within24Hours(e.datetime, call.now))

-----------------------------------------------------------------------------
(* C27: relevant_facts over a store loaded from a memory file              *)

MaxStoredFacts == 11    \* facts in the largest memory file

fact_recall == <<"r","e","c","a","l","l">>
Letters == <<"a","b","c","d","e","f","g","h","i","j","k","l","m","n">>

\* n distinct facts "recall a", "recall b", ... saved by an earlier session
StoredFacts(n) ==
    [k \in 1..n |-> [content |-> fact_recall \o <<" ", Letters[k]>>,
                     category |-> "note", timestamp |-> 0]]

\* a conversation record as handle_action appends it
StoredConversation(text) ==
    [text |-> text, action |-> "general_query", timestamp |-> 0]

\* memory files with fewer and with more than MAX_ACTIVE_CONTEXT facts, and
\* with LastConversations conversations of which only the oldest says "call"
RelevantDocuments ==
    {[EmptyMemory EXCEPT
        !.long_term.facts = StoredFacts(n),
        !.long_term.conversations =
            <<StoredConversation(msg_call_mom)>>
            \o [k \in 1..(LastConversations - 1) |->
                    StoredConversation(txt_no_thanks)]] :
        n \in {MaxStoredFacts - 2, MaxStoredFacts}}

InitRelevant ==
    /\ memory = EmptyMemory
    /\ pending_action = None
    /\ disk \in RelevantDocuments
    /\ clock = [sec |-> 0, usec |-> 0]
    /\ next_id = 1
    /\ call = [op |-> "main"]
    /\ last_tick = None
    /\ used = [calls |-> 0, notices |-> <<>>]
    /\ sched = Asleep
    /\ is_listening = FALSE
    /\ sessions = <<>>

RelevantIntents ==
    {[action |-> "general_query", message |-> "ok", response |-> txt_answer]}

NextRelevant ==
    \/ LoadMemory
    \/ \E a \in RelevantIntents, t \in {msg_call_mom, txt_no_thanks} :
        call.op # "main" /\ HandleAction(a, t)
    \/ call.op # "main" /\ UpdateContextualMemory
    \/ call.op # "main" /\ AdvanceClock([sec |-> 120, usec |-> 0])

SpecRelevant == InitRelevant /\ [][NextRelevant]_vars

\* the lower-cased words of the last 5 recent conversations
RecentTopics ==
    LET recent == memory.contextual.recent_conversations
    IN  UNION {Words(Lower(recent[i].text)) :
                i \in {j \in DOMAIN recent : j > Len(recent) - LastConversations}}

\* the fact shares a whole word with the recent topics
SharesToken(fact) == Words(Lower(fact.content)) \cap RecentTopics # {}

\* a recent topic occurs somewhere in the fact's lower-cased content
ContainsTopic(fact) ==
    \E topic \in RecentTopics : Contains(Lower(fact.content), topic)

\* C27 as stated: relevant_facts holds at most 10 facts, each sharing a
\* whole-word token with the text of the last 5 recent conversations
\* (token-set intersection, not substring containment), in store order.
C27_TokenIntersection ==
    JustRefreshed =>
        LET relevant == memory.contextual.relevant_facts
        IN  /\ Len(relevant) <= MAX_ACTIVE_CONTEXT
            /\ \A i \in DOMAIN relevant : SharesToken(relevant[i])
            /\ relevant = Prefix(SelectSeq(memory.long_term.facts,
                                    LAMBDA f : f \in Range(relevant)),
                                 Len(relevant))

\* C27 amended: relevant_facts is the first 10, in store order, of the facts
\* whose lower-cased content contains, as a substring, a word of the text of
\* the last 5 recent conversations.
C27_SubstringMatch ==
    JustRefreshed =>
        LET relevant == memory.contextual.relevant_facts
            matching == SelectSeq(memory.long_term.facts, ContainsTopic)
        IN  /\ Len(relevant) <= MAX_ACTIVE_CONTEXT
            /\ \A i \in DOMAIN relevant : ContainsTopic(relevant[i])
            /\ Len(relevant) = IF Len(matching) < MAX_ACTIVE_CONTEXT
                               THEN Len(matching) ELSE MAX_ACTIVE_CONTEXT
            /\ \A i \in DOMAIN relevant : relevant[i] = matching[i]

\* a recomputation cut more than 10 matching facts down to 10, none of which
\* shares a whole word with the recent conversations
C27_Witness ==
    /\ JustRefreshed
    /\ Len(SelectSeq(memory.long_term.facts, ContainsTopic)) > MAX_ACTIVE_CONTEXT
    /\ Len(memory.contextual.relevant_facts) = MAX_ACTIVE_CONTEXT
    /\ \A i \in DOMAIN memory.contextual.relevant_facts :
            ~SharesToken(memory.contextual.relevant_facts[i])

-----------------------------------------------------------------------------
(* C28: clear_reminders on stores with reminders, events and facts          *)

ClearRemindersIntents ==
    {[action |-> "clear_reminders", message |-> "ok"],
     [action |-> "clear_reminders", message |-> "ok", needs_confirmation |-> TRUE],
     [action |-> "remember_fact", message |-> "ok", content |-> fact_mom,
      category |-> "family"]}
    \cup {[action |-> "set_reminder", message |-> "ok",
           data |-> [message |-> msg_call_mom, suggested_time |-> 120,
                     type |-> ty]] : ty \in {"reminder", "event"}}

NextClear ==
    \/ \E a \in ClearRemindersIntents, t \in Texts : HandleAction(a, t)
    \/ AdvanceClock([sec |-> 60, usec |-> 0])

SpecClear == Init /\ [][NextClear]_vars

-----------------------------------------------------------------------------
(* C29: a held PendingAction and the operations that are not utterances    *)

\* clean_memory() applied to the current globals
CleanMemory ==
    /\ Commit(clean_memory(World(memory, pending_action, disk, next_id), clock),
              [op |-> "clean_memory", now |-> clock,
               path |-> "", effects |-> <<>>])
    /\ sched' = [sched EXCEPT !.items = SeenThrough(@, memory')]
    /\ UNCHANGED <<clock, last_tick, used>>
    /\ UNCHANGED listener

HoldIntents ==
    {[action |-> "clear_reminders", message |-> "ok", needs_confirmation |-> TRUE],
     [action |-> "set_reminder", message |-> "ok",
      data |-> [message |-> msg_call_mom, suggested_time |-> 120,
                type |-> "reminder"]],
     [action |-> "set_reminder", message |-> "ok",
      data |-> [message |-> msg_Call_Mom, suggested_time |-> 120,
                type |-> "event", needs_confirmation |-> TRUE]]}

\* just after the due time, and more than LONG_TERM_WINDOW_DAYS later
HoldInstants ==
    {[sec |-> 120, usec |-> 1],
     [sec |-> LONG_TERM_WINDOW_DAYS * SecondsPerDay + 150, usec |-> 0]}

NextHold ==
    \/ \E a \in HoldIntents : HandleAction(a, txt_no_thanks)
    \/ CheckReminders
    \/ CleanMemory
    \/ UpdateContextualMemory
    \/ DisplayWeeklyCalendar
    \/ \E t \in HoldInstants : AdvanceClock(t)

SpecHold == Init /\ [][NextHold]_vars

\* C29: a held PendingAction is left exactly as stored by the passage of time
\* and by every operation that is not the handling of an utterance:
\* check_reminders ticks, sweeps and display refreshes; it has no timeout.
C29_PendingHeld ==
    [][~IsCallStep => pending_action' = pending_action]_vars

\* more than LONG_TERM_WINDOW_DAYS after the prompt, a tick has completed the
\* reminder the held clear_reminders was asked about, and the PendingAction
\* is still there
C29_Witness ==
    /\ pending_action # None
    /\ pending_action.action = "clear_reminders"
    /\ call.op = "check_reminders"
    /\ call.effects # <<>>
    /\ clock.sec > LONG_TERM_WINDOW_DAYS * SecondsPerDay

-----------------------------------------------------------------------------
(* C30: the memory file stops being writable                                *)

\* from now on open(memory_file, 'w') raises (kind "open"), or it succeeds
\* and json.dump raises (kind "dump")
BreakDisk(kind) ==
    /\ ~IsFailing(disk)
    /\ disk' = [failing |-> kind, content |-> disk]
    /\ UNCHANGED <<memory, pending_action, clock, next_id, call, last_tick,
                   used, sched>>
    /\ UNCHANGED listener

FailIntents ==
    {[action |-> "set_reminder", message |-> "ok",
      data |-> [message |-> msg_call_mom, suggested_time |-> 120,
                type |-> "reminder"]],
     [action |-> "remember_fact", message |-> "ok", content |-> fact_mom,
      category |-> "family"],
     [action |-> "clear_reminders", message |-> "ok"],
     [action |-> "clear_all_memory", message |-> "ok"]}

NextFail ==
    \/ \E a \in FailIntents : HandleAction(a, txt_no_thanks)
    \/ \E kind \in {"open", "dump"} : BreakDisk(kind)

SpecFail == Init /\ [][NextFail]_vars

\* the effects with every failed flush read as a flush
AsIfSaved(effects) ==
    [k \in DOMAIN effects |->
        IF effects[k] = [e |-> "save_failed"] THEN [e |-> "save"] ELSE effects[k]]

\* C30: when a flush fails inside a call, the in-memory store is exactly what
\* the call's mutation made it, nothing is raised to the caller, and the
\* action completes as it would have with a working file: same path, same
\* response and notification, same PendingAction.
C30_FlushFailureContained ==
    [][(IsCallStep /\ [e |-> "save_failed"] \in Range(call'.effects))
        => LET ok == handle_action(
                        World(memory, pending_action, NoFile, next_id),
                        call'.action_data, call'.original_text, call'.now)
           IN  /\ memory' = ok.memory
               /\ pending_action' = ok.pending_action
               /\ call'.path = ok.path
               /\ AsIfSaved(call'.effects) = ok.effects
               /\ StepsOf(call'.effects, "speak") # {}]_vars

\* a second call has stored a reminder and answered although its flush
\* failed, after an earlier call whose flush had failed too
C30_Witness ==
    /\ call.op = "handle_action"
    /\ call.path = "tail_set_reminder"
    /\ [e |-> "save_failed"] \in Range(call.effects)
    /\ StepsOf(call.effects, "speak") # {}
    /\ IsFailing(disk)
    /\ memory.long_term.reminders # <<>>
    /\ memory.long_term.facts # <<>>
    /\ used.calls >= 2

-----------------------------------------------------------------------------
(* C31: the process starts again over the file an earlier run wrote         *)

\* a reminder as an earlier session saved it in a legacy file
StoredReminder ==
    [id |-> 0, message |-> msg_call_mom, datetime |-> 120, created_at |-> 0,
     status |-> "active"]

\* a legacy memory file: the collections at top level, no `contextual`
LegacyDocument == [reminders |-> <<StoredReminder>>, facts |-> <<>>]

\* the process starts: the globals have their initial values (app.py:33-54),
\* main() calls load_memory() and starts the scheduler thread
Main ==
    /\ ~IsFailing(disk)
    /\ memory' = IF disk = NoFile THEN EmptyMemory
                 ELSE load_memory(EmptyMemory, disk)
    /\ pending_action' = None
    /\ call' = [op |-> "load_memory", now |-> clock]
    /\ sched' = Asleep
    /\ last_tick' = None
    /\ is_listening' = FALSE
    /\ sessions' = <<>>
    /\ UNCHANGED <<disk, clock, next_id, used>>

InitReload ==
    /\ memory = EmptyMemory
    /\ pending_action = None
    /\ disk \in {NoFile, LegacyDocument}
    /\ clock = [sec |-> 0, usec |-> 0]
    /\ next_id = 1
    /\ call = [op |-> "main"]
    /\ last_tick = None
    /\ used = [calls |-> 0, notices |-> <<>>]
    /\ sched = Asleep
    /\ is_listening = FALSE
    /\ sessions = <<>>

ReloadIntents ==
    {[action |-> "set_reminder", message |-> "ok",
      data |-> [message |-> msg_call_mom, suggested_time |-> 120, type |-> ty]] :
        ty \in {"reminder", "event"}}
    \cup {[action |-> "clear_reminders", message |-> "ok"]}

NextReload ==
    \/ Main
    \/ \E a \in ReloadIntents : call.op # "main" /\ HandleAction(a, msg_call_mom)
    \/ \E t \in ContextInstants : call.op # "main" /\ AdvanceClock(t)

SpecReload == InitReload /\ [][NextReload]_vars

\* C31: after load_memory of a persisted document, tiered or legacy, the
\* contextual view in memory equals the view recomputed from the loaded
\* long-term collections; the stored `contextual` section is not used as it is.
C31_ViewRecomputedOnLoad ==
    (call.op = "load_memory" /\ clock = call.now) =>
        Views(memory.contextual) =
            Views(Refreshed(memory.contextual, memory.long_term,
                            RecentConversations(memory.long_term.conversations,
                                                call.now),
                            call.now))

\* C32: once a reminder's completed_at has been set it never changes, at any
\* interleaving of a clear_reminders execution on the foreground thread with
\* the statements of a check_reminders tick on the scheduler thread: each
\* reminder is stamped completed by at most one of them.
C32_StampedOnce ==
    [][\A i \in DOMAIN memory.long_term.reminders,
          j \in DOMAIN memory'.long_term.reminders :
            LET r == memory.long_term.reminders[i]
                q == memory'.long_term.reminders[j]
            IN  (r.id = q.id /\ "completed_at" \in DOMAIN r)
                    => /\ "completed_at" \in DOMAIN q
                       /\ q.completed_at = r.completed_at]_vars

\* the held PendingAction is a set_reminder that was asked about because its
\* suggested_time had already passed
HeldPastDue ==
    /\ pending_action # None
    /\ pending_action.action = "set_reminder"
    /\ pending_action.confirmation_message = [kind |-> "time_passed_ask_tomorrow"]

\* C33: when a set_reminder held because its suggested_time was already past
\* is affirmed, the reminder or event inserted has a time strictly later than
\* the moment of insertion: it is never stored with the original past time.
C33_ConfirmedInFuture ==
    [][(IsCallStep /\ HeldPastDue /\ call'.path = "confirm_set_reminder")
        => /\ \A j \in DOMAIN memory'.long_term.reminders :
                Absent(memory, memory'.long_term.reminders[j].id)
                    => memory'.long_term.reminders[j].datetime > call'.now.sec
           /\ \A j \in DOMAIN memory'.long_term.events :
                j > Len(memory.long_term.events)
                    => memory'.long_term.events[j].datetime > call'.now.sec]_vars

-----------------------------------------------------------------------------
(* C34: reminders due 15 s, 31 s and up to 5 minutes after their creation,  *)
(* under a scheduler that ticks every 30 s                                  *)

CadenceIntents ==
    {[action |-> "set_reminder", message |-> "ok",
      data |-> [message |-> msg_call_mom, suggested_time |-> t,
                type |-> "reminder"]] :
        t \in {TickPeriod + 15, 3 * TickPeriod + 1, DueSoonWindow}}

NextCadence ==
    \/ \E a \in CadenceIntents :
        clock.sec <= 2 * TickPeriod /\ HandleAction(a, txt_no_thanks)
    \/ CheckReminders
    \/ Sleep

SpecCadence == Init /\ [][NextCadence]_vars

=============================================================================
